---- MODULE Spec2Model ----
(***************************************************************************)
(* Model of the live market-analysis service: the upstream feed connector  *)
(* (app.py UpstoxMarketDataService, app_bigmove.py MarketDataService), the *)
(* SSE broadcast hub (state.clients / state.signal_clients and the         *)
(* generate_sse generators) and the strict signal analyzer                 *)
(* (signal_analyzer_strong.py StrongSignalAnalyzer).                       *)
(*                                                                         *)
(* Feed messages of the connector and hub specifications carry no 'feeds'  *)
(* entry (the feed's market_info messages), so broadcast_data skips its    *)
(* analysis loop there; the analyzer is exercised by SpecStrong.           *)
(***************************************************************************)
EXTENDS Integers, Sequences, FiniteSets, TLC

VARIABLES
    svc,              \* which live connector runs: "app" or "bigmove"
    running,          \* self.running
    pc,               \* position of connect_and_stream
    retry_count,      \* local retry_count of connect_and_stream
    upstox_connected, \* state.upstox_connected
    ws,               \* the websocket of the current session: none/open/closed
    loop_stopping,    \* loop.stop() was called on the running event loop
    message_count,    \* state.message_count
    attempts,         \* history: connection attempts started
    consecFails,      \* history: consecutive attempts that failed to connect
    credsRejected,    \* history: the authorize call was refused for bad credentials
    clients,          \* state.clients ("main") and state.signal_clients ("signal")
    queue,            \* the deque(maxlen=100) of every SSE generator
    cstate,           \* position of every SSE generator: idle/active/gone
    cchan,            \* the list a generator registered in
    drained,          \* history: the generator has popped from its queue
    subAt,            \* history: id of the first message published after it registered
    pubPc,            \* position of broadcast_data: idle/main/signal
    pubIdx,           \* index of the list iterator of the running for-loop
    pubEvent,         \* the message being broadcast (its ordinal, 0-based)
    regAtStart,       \* history: the queues in the list when the for-loop started
    got,              \* history: appends of the current message per queue
    strong,           \* state.signal_analyzer: the StrongSignalAnalyzer's dictionaries
    lastCall,         \* the last analyzer call: its arguments' symbol and what it returned
    nTicks,           \* history: analyzer calls made
    lenient,          \* a SignalAnalyzer: its price and volume dictionaries
    detector,         \* state.bigmove_detector / state.detector: avg_volumes
    feed,             \* data['feeds'] of the message being analyzed: (symbol, value) pairs
    feedIdx,          \* index of the for-loop over the feeds
    outcome,          \* history: what became of the symbols of the last message
    heap,             \* the result dictionaries the analyses returned, by identity
    analysis_results, \* state.analysis_results: symbol -> result object
    signal_results,   \* state.signal_results: symbol -> result object
    lock,             \* state.lock: free, or held by a request thread
    published,        \* history: every result as it was when it was stored
    reader,           \* a request thread reading one stored result
    failedAt,         \* history: messages received when a client's connection broke
    lastSent,         \* history: the last event every SSE generator has yielded
    subSent,          \* history: subscription messages sent on the current connection
    lastRecv,         \* history: how the last receive on the current connection ended
    waited,           \* history: seconds of the sleep the last exception handler chose
    stamped           \* history: the message_id of every message app.py broadcast and
                      \* the connection attempt that received it, in publish order

hubVars == <<clients, queue, cstate, cchan, drained, subAt>>
pubVars == <<pubPc, pubIdx, pubEvent, regAtStart, got>>
connVars == <<svc, running, pc, retry_count, upstox_connected, ws, loop_stopping,
              attempts, consecFails, credsRejected>>
anVars == <<strong, lastCall, nTicks>>
engVars == <<lenient, detector>>
feedVars == <<feed, feedIdx, outcome>>
storeVars == <<heap, analysis_results, signal_results, lock, published>>
dataVars == <<feedVars, storeVars, reader, failedAt>>
connHist == <<subSent, lastRecv, waited>>
histVars == <<lastSent, connHist, stamped>>
extVars == <<dataVars, histVars>>

----------------------------------------------------------------------------
(* Bounds of the exploration *)

MaxAttempts == 7
MaxMessages == 2
HubMessages == 3
QueueMessages == 150
MaxTicks == 3
PrimeTicks == 5
BasePrice == 10000
PriceStep == 100
MomentumCalls == 6
WindowPrimeTicks == 5
VolumePrimeCalls == 48
FeedLimit == 2

(* Program constants *)

max_retries == 5
QueueMaxLen == 100

Services == {"app", "bigmove"}
Channels == {"main", "signal"}
Clients == {"c1", "c2", "c3"}
HubClients == {"c1", "c2"}
QueueClients == {"c1"}
Symbols == {"X"}

Min(a, b) == IF a < b THEN a ELSE b
Range(s) == {s[i] : i \in 1..Len(s)}

----------------------------------------------------------------------------
(* collections.deque(maxlen=QueueMaxLen).append: a full deque discards its *)
(* leftmost item to admit the new one.                                     *)

DequeAppend_DropNewest(q, x) ==
    IF Len(q) >= QueueMaxLen THEN q ELSE Append(q, x)

DequeAppend(q, x) ==
    IF Len(q) >= QueueMaxLen THEN Append(Tail(q), x) ELSE Append(q, x)

(* list.remove(x): deletes the first item that is x or compares equal to   *)
(* x.  The items are deques, and deques compare by contents.  When no item *)
(* matches, ValueError is raised and the list is left alone.               *)

ListRemove(list, c) ==
    LET hits == {i \in 1..Len(list) : list[i] = c \/ queue[list[i]] = queue[c]}
    IN  IF hits = {} THEN list
        ELSE LET k == CHOOSE i \in hits : \A j \in hits : i <= j
             IN  [i \in 1..(Len(list) - 1) |-> IF i < k THEN list[i] ELSE list[i + 1]]

----------------------------------------------------------------------------
(* SSE generators: generate_sse and generate_signal_sse *)

(* First message a generator registering now can receive: the message in   *)
(* flight when its list has not been iterated to the end yet.              *)
(* What a generator has yielded last: nothing yet, the 'connection' event *)
(* of its first yield, or the message (its ordinal) it popped last.        *)
NothingSent == 0 - 2
ConnectionEvent == 0 - 1

FirstEventFor(ch) ==
    IF pubPc = "idle" \/ (ch = "main" /\ pubPc = "signal")
    THEN message_count ELSE pubEvent

Subscribe(c, ch) ==
    /\ cstate[c] = "idle"
    /\ ch = "signal" => svc = "app"
    /\ queue' = [queue EXCEPT ![c] = <<>>]
    /\ clients' = [clients EXCEPT ![ch] = Append(@, c)]
    /\ cstate' = [cstate EXCEPT ![c] = "active"]
    /\ cchan' = [cchan EXCEPT ![c] = ch]
    /\ subAt' = [subAt EXCEPT ![c] = FirstEventFor(ch)]
    /\ lastSent' = [lastSent EXCEPT ![c] = ConnectionEvent]
    /\ UNCHANGED <<anVars, engVars, dataVars, connHist, stamped, drained, pubVars, connVars, message_count>>

popleft_FromRight(q) == [data |-> q[Len(q)], rest |-> SubSeq(q, 1, Len(q) - 1)]

(* deque.popleft(): the leftmost item, and the deque without it *)
popleft(q) == [data |-> Head(q), rest |-> Tail(q)]

(* data = client_queue.popleft(); yield f"data: {json.dumps(data)}\n\n" *)
PopLeft(c) ==
    /\ cstate[c] = "active"
    /\ queue[c] # <<>>
    /\ queue' = [queue EXCEPT ![c] = popleft(@).rest]
    /\ drained' = [drained EXCEPT ![c] = TRUE]
    /\ subAt' = [subAt EXCEPT ![c] = 0]
    /\ lastSent' = [lastSent EXCEPT ![c] = popleft(queue[c]).data]
    /\ UNCHANGED <<anVars, engVars, dataVars, connHist, stamped, clients, cstate, cchan, pubVars, connVars,
                   message_count>>

(* finally: state.clients.remove(client_queue).  A deque that is no longer *)
(* in the list is unreachable and is dropped.                              *)
Unsubscribe(c) ==
    LET left == ListRemove(clients[cchan[c]], c)
    IN  /\ cstate[c] = "active"
        /\ cstate' = [cstate EXCEPT ![c] = "gone"]
        /\ clients' = [clients EXCEPT ![cchan[c]] = left]
        /\ queue' = [d \in Clients |->
                        IF d \in Range(left) \/ (d # c /\ cstate[d] = "active")
                        THEN queue[d] ELSE <<>>]
        /\ drained' = [drained EXCEPT ![c] = FALSE]
        /\ subAt' = [subAt EXCEPT ![c] = 0]
        /\ UNCHANGED <<anVars, engVars, extVars, cchan, pubVars, connVars, message_count>>

(* The connection of a client breaks.  Its generator goes on running: only *)
(* a write to the connection tells the server that it is gone.             *)
SinkFail(c) ==
    /\ cstate[c] = "active"
    /\ cstate' = [cstate EXCEPT ![c] = "failed"]
    /\ failedAt' = [failedAt EXCEPT ![c] = message_count]
    /\ UNCHANGED <<anVars, engVars, feedVars, storeVars, reader, histVars, clients, queue, cchan, drained,
                   subAt, pubVars, connVars, message_count>>

(* The generator of a broken connection yields (a popped message, or the   *)
(* heartbeat that is due every 30 s), the server's write fails, the        *)
(* generator is closed and its finally clause removes the queue.           *)
WriteFails(c) ==
    LET left == ListRemove(clients[cchan[c]], c)
    IN  /\ cstate[c] = "failed"
        /\ cstate' = [cstate EXCEPT ![c] = "gone"]
        /\ clients' = [clients EXCEPT ![cchan[c]] = left]
        /\ queue' = [d \in Clients |->
                        IF d \in Range(left) \/ (d # c /\ cstate[d] \in {"active", "failed"})
                        THEN queue[d] ELSE <<>>]
        /\ drained' = [drained EXCEPT ![c] = FALSE]
        /\ subAt' = [subAt EXCEPT ![c] = 0]
        /\ UNCHANGED <<anVars, engVars, extVars, cchan, pubVars, connVars, message_count>>

----------------------------------------------------------------------------
(* broadcast_data / broadcast_with_analysis: the two for-loops over the    *)
(* client lists, one list item per step (no lock is held).                 *)

BroadcastStep_Blocking(ch) ==
    /\ pubPc = ch
    /\ pubIdx <= Len(clients[ch])
    /\ LET c == clients[ch][pubIdx]
       IN  /\ Len(queue[c]) < QueueMaxLen
           /\ queue' = [queue EXCEPT ![c] = Append(@, pubEvent)]
           /\ got' = [got EXCEPT ![c] = @ + 1]
    /\ pubIdx' = pubIdx + 1
    /\ UNCHANGED <<anVars, engVars, extVars, clients, cstate, cchan, drained, subAt, pubPc, pubEvent,
                   regAtStart, connVars, message_count>>

BroadcastStep(ch) ==
    /\ pubPc = ch
    /\ pubIdx <= Len(clients[ch])
    /\ LET c == clients[ch][pubIdx]
       IN  /\ queue' = [queue EXCEPT ![c] = DequeAppend(@, pubEvent)]
           /\ got' = [got EXCEPT ![c] = @ + 1]
    /\ pubIdx' = pubIdx + 1
    /\ UNCHANGED <<anVars, engVars, extVars, clients, cstate, cchan, drained, subAt, pubPc, pubEvent,
                   regAtStart, connVars, message_count>>

BroadcastMainEnd ==
    /\ pubPc = "main"
    /\ pubIdx > Len(clients["main"])
    /\ IF svc = "app"
       THEN /\ pubPc' = "signal"
            /\ pubIdx' = 1
            /\ regAtStart' = Range(clients["signal"])
            /\ got' = [c \in Clients |-> 0]
       ELSE /\ pubPc' = "idle"
            /\ UNCHANGED <<pubIdx, regAtStart, got>>
    /\ UNCHANGED <<anVars, engVars, extVars, pubEvent, hubVars, connVars, message_count>>

BroadcastSignalEnd ==
    /\ pubPc = "signal"
    /\ pubIdx > Len(clients["signal"])
    /\ pubPc' = "idle"
    /\ UNCHANGED <<anVars, engVars, extVars, pubIdx, pubEvent, regAtStart, got, hubVars, connVars, message_count>>

----------------------------------------------------------------------------
(* connect_and_stream *)

LoopCondition_OffByOne == running /\ retry_count <= max_retries

(* while self.running and retry_count < max_retries *)
LoopCondition == running /\ retry_count < max_retries

Start ==
    /\ pc = "init"
    /\ running' = TRUE
    /\ pc' = "loop"
    /\ retry_count' = 0
    /\ UNCHANGED <<anVars, engVars, extVars, svc, upstox_connected, ws, loop_stopping, attempts, consecFails,
                   credsRejected, hubVars, pubVars, message_count>>

LoopEnter ==
    /\ pc = "loop"
    /\ LoopCondition
    /\ attempts < MaxAttempts
    /\ pc' = "authorize"
    /\ attempts' = attempts + 1
    /\ UNCHANGED <<anVars, engVars, extVars, svc, running, retry_count, upstox_connected, ws, loop_stopping,
                   consecFails, credsRejected, hubVars, pubVars, message_count>>

LoopExit ==
    /\ pc = "loop"
    /\ ~LoopCondition
    /\ pc' = "done"
    /\ UNCHANGED <<anVars, engVars, extVars, svc, running, retry_count, upstox_connected, ws, loop_stopping,
                   attempts, consecFails, credsRejected, hubVars, pubVars, message_count>>

(* wait_time = min(5 * retry_count, 30) *)
wait_time(count) == Min(5 * count, 30)

(* except Exception: the handler of the session's try block.  The session's *)
(* websocket is closed by the exit of its async-with block.                 *)
OnException ==
    /\ retry_count' = retry_count + 1
    /\ ws' = "none"
    /\ IF svc = "app"
       THEN /\ upstox_connected' = FALSE
            /\ IF retry_count + 1 < max_retries
               THEN /\ pc' = "backoff" /\ running' = running
                    /\ waited' = wait_time(retry_count + 1)
               ELSE /\ pc' = "loop" /\ running' = FALSE
                    /\ waited' = 0
       ELSE /\ pc' = "backoff"
            /\ waited' = wait_time(retry_count + 1)
            /\ UNCHANGED <<upstox_connected, running>>

AuthorizeOk ==
    /\ pc = "authorize"
    /\ pc' = "connect"
    /\ UNCHANGED <<anVars, engVars, extVars, svc, running, retry_count, upstox_connected, ws, loop_stopping,
                   attempts, consecFails, credsRejected, hubVars, pubVars, message_count>>

(* get_market_feed_url raises: the request failed, or raise_for_status()   *)
(* refused the access token.                                               *)
AuthorizeFail(reason) ==
    /\ pc = "authorize"
    /\ OnException
    /\ consecFails' = consecFails + 1
    /\ credsRejected' = (credsRejected \/ reason = "invalid_credentials")
    /\ UNCHANGED <<anVars, engVars, dataVars, lastSent, stamped, subSent, lastRecv, svc, loop_stopping, attempts, hubVars, pubVars, message_count>>

ConnectOk ==
    /\ pc = "connect"
    /\ ws' = "open"
    /\ upstox_connected' = TRUE
    /\ retry_count' = IF svc = "app" THEN 0 ELSE retry_count
    /\ consecFails' = 0
    /\ subSent' = 0
    /\ lastRecv' = "none"
    /\ pc' = "subscribe"
    /\ UNCHANGED <<anVars, engVars, dataVars, lastSent, stamped, waited, svc, running, loop_stopping, attempts, credsRejected, hubVars,
                   pubVars, message_count>>

ConnectFail ==
    /\ pc = "connect"
    /\ OnException
    /\ consecFails' = consecFails + 1
    /\ UNCHANGED <<anVars, engVars, dataVars, lastSent, stamped, subSent, lastRecv, svc, loop_stopping, attempts,
                   credsRejected, hubVars, pubVars,
                   message_count>>

SubscribeOk_NotSent ==
    /\ pc = "subscribe"
    /\ pc' = "stream"
    /\ UNCHANGED <<anVars, engVars, extVars, svc, running, retry_count, upstox_connected, ws,
                   loop_stopping, attempts, consecFails, credsRejected, hubVars, pubVars,
                   message_count>>

(* await asyncio.sleep(1), then await websocket.send(json.dumps(subscription)) *)
SubscribeOk ==
    /\ pc = "subscribe"
    /\ subSent' = subSent + 1
    /\ pc' = "stream"
    /\ UNCHANGED <<anVars, engVars, dataVars, lastSent, stamped, lastRecv, waited, svc, running, retry_count, upstox_connected, ws, loop_stopping,
                   attempts, consecFails, credsRejected, hubVars, pubVars, message_count>>

SubscribeFail ==
    /\ pc = "subscribe"
    /\ OnException
    /\ UNCHANGED <<anVars, engVars, dataVars, lastSent, stamped, subSent, lastRecv, svc, loop_stopping, attempts, consecFails, credsRejected, hubVars,
                   pubVars, message_count>>

(* decoded_data['message_id'] = state.message_count (app.py only) *)
Stamp(message_id) ==
    IF svc = "app"
    THEN Append(stamped, [message_id |-> message_id, session |-> attempts])
    ELSE stamped

RecvTick_StampsNewCount(limit) ==
    /\ pc = "stream"
    /\ running
    /\ ws = "open"
    /\ pubPc = "idle"
    /\ message_count < limit
    /\ pubEvent' = message_count
    /\ stamped' = Stamp(message_count + 1)
    /\ message_count' = message_count + 1
    /\ pubPc' = "main"
    /\ pubIdx' = 1
    /\ regAtStart' = Range(clients["main"])
    /\ got' = [c \in Clients |-> 0]
    /\ lastRecv' = "message"
    /\ UNCHANGED <<anVars, engVars, dataVars, lastSent, subSent, waited, hubVars, connVars>>

(* A message is received and decoded and gets its message_id;              *)
(* broadcast_data starts: the counter is bumped under the lock and the     *)
(* loop over state.clients begins.                                         *)
RecvTick(limit) ==
    /\ pc = "stream"
    /\ running
    /\ ws = "open"
    /\ pubPc = "idle"
    /\ message_count < limit
    /\ pubEvent' = message_count
    /\ stamped' = Stamp(message_count)
    /\ message_count' = message_count + 1
    /\ pubPc' = "main"
    /\ pubIdx' = 1
    /\ regAtStart' = Range(clients["main"])
    /\ got' = [c \in Clients |-> 0]
    /\ lastRecv' = "message"
    /\ UNCHANGED <<anVars, engVars, dataVars, lastSent, subSent, waited, hubVars, connVars>>

(* A message is received and decode_protobuf returns None (or an empty     *)
(* dictionary): `if decoded_data:` skips it and the loop receives again    *)
RecvUndecodable ==
    /\ pc = "stream"
    /\ running
    /\ ws = "open"
    /\ pubPc = "idle"
    /\ lastRecv' = "message"
    /\ UNCHANGED <<anVars, engVars, dataVars, lastSent, stamped, subSent, waited, hubVars,
                   pubVars, connVars, message_count>>

RecvTimeoutPingOk_Reconnects ==
    /\ pc = "stream"
    /\ running
    /\ ws = "open"
    /\ pubPc = "idle"
    /\ OnException
    /\ lastRecv' = "timeout"
    /\ UNCHANGED <<anVars, engVars, dataVars, lastSent, stamped, subSent, svc, loop_stopping, attempts,
                   consecFails, credsRejected, hubVars, pubVars, message_count>>

(* asyncio.TimeoutError: a ping is sent and the loop goes on *)
RecvTimeoutPingOk ==
    /\ pc = "stream"
    /\ running
    /\ ws = "open"
    /\ pubPc = "idle"
    /\ lastRecv' = "timeout"
    /\ UNCHANGED <<anVars, engVars, dataVars, lastSent, stamped, subSent, waited, hubVars, pubVars, connVars,
                   message_count>>

(* the ping raises inside the except clause: the outer handler takes it *)
RecvTimeoutPingFail ==
    /\ pc = "stream"
    /\ running
    /\ ws = "open"
    /\ pubPc = "idle"
    /\ OnException
    /\ lastRecv' = "ping_failed"
    /\ UNCHANGED <<anVars, engVars, dataVars, lastSent, stamped, subSent, svc, loop_stopping, attempts, consecFails, credsRejected, hubVars,
                   pubVars, message_count>>

(* recv raises ConnectionClosed.  app.py catches it inside the while loop, *)
(* prints and iterates again; app_bigmove.py lets it reach the handler.    *)
RecvClosed ==
    /\ pc = "stream"
    /\ running
    /\ ws \in {"open", "closed"}
    /\ pubPc = "idle"
    /\ IF svc = "app"
       THEN /\ ws' = "closed"
            /\ UNCHANGED <<pc, running, retry_count, upstox_connected, waited>>
       ELSE OnException
    /\ lastRecv' = "closed"
    /\ UNCHANGED <<anVars, engVars, dataVars, lastSent, stamped, subSent, svc, loop_stopping, attempts, consecFails, credsRejected, hubVars,
                   pubVars, message_count>>

(* any other exception of the receive loop *)
RecvError ==
    /\ pc = "stream"
    /\ running
    /\ ws = "open"
    /\ pubPc = "idle"
    /\ OnException
    /\ lastRecv' = "error"
    /\ UNCHANGED <<anVars, engVars, dataVars, lastSent, stamped, subSent, svc, loop_stopping, attempts, consecFails, credsRejected, hubVars,
                   pubVars, message_count>>

(* while self.running is false: app.py clears the flag and breaks out of   *)
(* the outer loop; app_bigmove.py falls back to the outer loop's test.     *)
InnerExit ==
    /\ pc = "stream"
    /\ ~running
    /\ pubPc = "idle"
    /\ ws' = "none"
    /\ IF svc = "app"
       THEN upstox_connected' = FALSE /\ pc' = "done"
       ELSE upstox_connected' = upstox_connected /\ pc' = "loop"
    /\ UNCHANGED <<anVars, engVars, extVars, svc, running, retry_count, loop_stopping, attempts, consecFails,
                   credsRejected, hubVars, pubVars, message_count>>

(* the asyncio.sleep of the handler is over *)
BackoffOver ==
    /\ pc = "backoff"
    /\ pc' = "loop"
    /\ UNCHANGED <<anVars, engVars, extVars, svc, running, retry_count, upstox_connected, ws, loop_stopping,
                   attempts, consecFails, credsRejected, hubVars, pubVars, message_count>>

(* UpstoxMarketDataService.stop, called from another thread *)
Stop ==
    /\ svc = "app"
    /\ pc # "init"
    /\ running' = FALSE
    /\ loop_stopping' = (loop_stopping \/ pc \notin {"done", "aborted"})
    /\ UNCHANGED <<anVars, engVars, extVars, svc, pc, retry_count, upstox_connected, ws, attempts, consecFails,
                   credsRejected, hubVars, pubVars, message_count>>

(* The stopped event loop leaves run_forever while the coroutine waits in  *)
(* an await: run_until_complete raises and the coroutine never resumes.    *)
LoopHalt ==
    /\ loop_stopping
    /\ pc \in {"connect", "subscribe", "stream", "backoff"}
    /\ pubPc = "idle"
    /\ pc' = "aborted"
    /\ UNCHANGED <<anVars, engVars, extVars, svc, running, retry_count, upstox_connected, ws, loop_stopping,
                   attempts, consecFails, credsRejected, hubVars, pubVars, message_count>>

----------------------------------------------------------------------------
(* StrongSignalAnalyzer (signal_analyzer_strong.py).                       *)
(*                                                                         *)
(* Numbers are fixed-point integers: prices in 1/100, gamma in 1/10000,    *)
(* delta and iv in 1/100, the OFI value in 1/10000 (it is rounded to four  *)
(* places by the code), ratios in 1/100, strengths in 1/10, the confidence *)
(* score in 1/10 of a point and the confidence in 1/100.  Thresholds are   *)
(* compared by cross-multiplication, so no quotient is truncated.          *)

lookback_ticks == 5
VolumeWindow == 60
GreeksWindow == 5
OiWindow == 5
OfiWindow == 5
MinVolumeFill == 10
MinPriceFill == 5
TotalConditions == 7

(* A raw field of the decoded message: a number, or None / '' / a string   *)
(* that is no number.                                                      *)
Num(n) == [kind |-> "num", val |-> n]
NoValue == [kind |-> "none", val |-> 0]
Text == [kind |-> "text", val |-> 0]

(* dict.get(key, default) *)
Get(d, k, default) == IF k \in DOMAIN d THEN d[k] ELSE default

Put_ForgetsOthers(d, k, v) == [x \in {k} |-> v]

(* d[k] = v *)
Put(d, k, v) == [x \in (DOMAIN d) \cup {k} |-> IF x = k THEN v ELSE d[x]]

(* Python floats: a finite number (a scaled integer here), +inf, -inf, nan *)
Fin(n) == [kind |-> "fin", val |-> n]
PosInf == [kind |-> "inf", val |-> 0]
NegInf == [kind |-> "ninf", val |-> 0]
NaN == [kind |-> "nan", val |-> 0]

IsFinite(x) == x.kind = "fin"

(* More raw fields: '', and the non-finite doubles of the feed, which      *)
(* MessageToDict renders as the strings 'NaN', 'Infinity', '-Infinity'.    *)
EmptyText == [kind |-> "empty", val |-> 0]
NaNValue == [kind |-> "nan", val |-> 0]
InfValue == [kind |-> "inf", val |-> 0]
NegInfValue == [kind |-> "ninf", val |-> 0]

(* float(value): TypeError for None, ValueError for text that is no        *)
(* number; 'NaN' and '[-]Infinity' parse to nan and [-]inf.                *)
FloatOf(value) ==
    CASE value.kind = "num" -> [raises |-> FALSE, f |-> Fin(value.val)]
      [] value.kind = "nan" -> [raises |-> FALSE, f |-> NaN]
      [] value.kind = "inf" -> [raises |-> FALSE, f |-> PosInf]
      [] value.kind = "ninf" -> [raises |-> FALSE, f |-> NegInf]
      [] OTHER -> [raises |-> TRUE, f |-> Fin(0)]

(* StrongSignalAnalyzer.to_num *)
to_num(value) ==
    IF value.kind \in {"none", "empty"} THEN Fin(0)
    ELSE IF FloatOf(value).raises THEN Fin(0)
    ELSE FloatOf(value).f

(* SignalAnalyzer.to_num *)
to_num_signal(value) ==
    IF value.kind \in {"none", "empty"} THEN Fin(0)
    ELSE IF FloatOf(value).raises THEN Fin(0)
    ELSE FloatOf(value).f

(* BigMoveDetector.to_num: n if not (n != n) else 0.0 *)
to_num_bigmove(value) ==
    IF value.kind \in {"none", "empty"} THEN Fin(0)
    ELSE IF FloatOf(value).raises THEN Fin(0)
    ELSE IF FloatOf(value).f.kind # "nan" THEN FloatOf(value).f ELSE Fin(0)

(* The strict analyzer's indicators are modelled on finite numbers: the    *)
(* coerced field as a scaled integer.  A non-finite result is handed on as *)
(* it is, and no tick of the analyzer specifications carries one.          *)
NumOf(value) ==
    IF IsFinite(to_num(value)) THEN to_num(value).val ELSE to_num(value)

DequePush_KeepsOldest(q, x, maxlen) ==
    IF Len(q) >= maxlen THEN q ELSE Append(q, x)

(* deque(maxlen=maxlen).append *)
DequePush(q, x, maxlen) ==
    IF Len(q) >= maxlen THEN Append(Tail(q), x) ELSE Append(q, x)

(* sum(q[lo..hi]) *)
RECURSIVE SumRange(_, _, _)
SumRange(q, lo, hi) ==
    IF lo > hi THEN 0
    ELSE IF lo = hi THEN q[lo]
    ELSE LET mid == (lo + hi) \div 2
         IN  SumRange(q, lo, mid) + SumRange(q, mid + 1, hi)

(* sum(q) *)
SumSeq(q) == SumRange(q, 1, Len(q))

(* list(q)[-3:] *)
LastThree(q) == SubSeq(q, Len(q) - 2, Len(q))

(* round(n / d, places) on the scaled integers: to nearest, ties to even.  *)
(* (Python rounds the binary value of the float, so a decimal tie can fall *)
(* either way there; no formula below rests on a tie.)                     *)
RoundHalfEven(n, d) ==
    LET q == n \div d
        r == n - q * d
    IN  IF 2 * r < d THEN q
        ELSE IF 2 * r > d THEN q + 1
        ELSE IF q % 2 = 0 THEN q ELSE q + 1

RECURSIVE Gcd(_, _)
Gcd(a, b) == IF b = 0 THEN a ELSE Gcd(b, a % b)

(* round(k * n / d) for d > 0, the fraction n / d in lowest terms first *)
RoundScaled(k, n, d) ==
    LET g == Gcd(IF n < 0 THEN 0 - n ELSE n, d)
    IN  RoundHalfEven(k * (n \div g), d \div g)

(* The quotient of a division whose divisor is zero *)
ZeroDivisionError == [raises |-> "ZeroDivisionError"]

(* calculate_ofi of the strict policy past its zero test.  The quantities  *)
(* are counts: tbq, tsq >= 0.                                              *)
StrictOfi(tbq, tsq) ==
    LET num == tbq - tsq
        den == tbq + tsq
    IN  IF den = 0 THEN ZeroDivisionError
        ELSE [value |-> RoundHalfEven(10000 * num, den),
              signal |-> IF 10 * num > 7 * den THEN "VERY_STRONG_BUY"
                         ELSE IF 10 * num > 6 * den THEN "STRONG_BUY"
                         ELSE "WEAK",
              strength |-> IF 10 * num > 7 * den THEN 10
                           ELSE IF 10 * num > 6 * den THEN 8
                           ELSE 0]

calculate_ofi_NoZeroTest(tbq, tsq) == StrictOfi(tbq, tsq)

(* StrongSignalAnalyzer.calculate_ofi *)
calculate_ofi(tbq, tsq) ==
    IF tbq + tsq = 0
    THEN [value |-> 0, signal |-> "NEUTRAL", strength |-> 0]
    ELSE StrictOfi(tbq, tsq)

(* SignalAnalyzer.calculate_ofi (the graded policy); strength in 1/100 *)
calculate_ofi_graded(tbq, tsq) ==
    IF tbq + tsq = 0
    THEN [value |-> 0, signal |-> "NEUTRAL", strength |-> 0]
    ELSE LET num == tbq - tsq
             den == tbq + tsq
         IN  [value |-> RoundHalfEven(10000 * num, den),
              signal |-> IF 2 * num > den THEN "STRONG_BUY"
                         ELSE IF 10 * num > 3 * den THEN "MODERATE_BUY"
                         ELSE IF num < 0 THEN "SELL_PRESSURE"
                         ELSE "NEUTRAL",
              strength |->
                  IF 2 * num > den
                  THEN Min(RoundHalfEven(100 * (2 * num - den), den), 100)
                  ELSE IF 10 * num > 3 * den
                  THEN RoundHalfEven(100 * (10 * num - 3 * den), 2 * den)
                  ELSE IF num < 0
                  THEN Min(RoundHalfEven(100 * (0 - num), den), 100)
                  ELSE IF 10 * num < 3 * den
                  THEN RoundHalfEven(100 * (3 * den - 10 * num), 10 * den)
                  ELSE 0]

(* calculate_volume_spike on the window that already holds current_volume *)
VolumeSpikeOf(window, current_volume) ==
    IF Len(window) < MinVolumeFill
    THEN [ratio |-> 100, signal |-> "WEAK", strength |-> 0]
    ELSE LET total == SumSeq(window)
             n == Len(window)
             \* spike_ratio >= k  <=>  current_volume * n >= k * total
             AtLeast(k) == IF total > 0 THEN current_volume * n >= k * total
                           ELSE 1 >= k
         IN  [ratio |-> IF total > 0
                        THEN RoundHalfEven(100 * current_volume * n, total)
                        ELSE 100,
              signal |-> IF AtLeast(5) THEN "EXTREME_SPIKE"
                         ELSE IF AtLeast(4) THEN "VERY_STRONG_SPIKE"
                         ELSE IF AtLeast(3) THEN "STRONG_SPIKE"
                         ELSE "WEAK",
              strength |-> IF AtLeast(5) THEN 10
                           ELSE IF AtLeast(4) THEN 9
                           ELSE IF AtLeast(3) THEN 7
                           ELSE 0]

(* calculate_momentum on the window that already holds current_ltp *)
MomentumOf(prices, current_ltp) ==
    IF Len(prices) < MinPriceFill
    THEN [value |-> 0, signal |-> "WEAK", trend |-> "NONE"]
    ELSE LET n == Len(prices)
             uptrend_count == Cardinality({i \in 2..n : prices[i] > prices[i - 1]})
             total == SumSeq(prices)
             \* momentum > k/1000  <=>  1000 * (ltp * n - total) > k * total
             MomentumAbove(k) ==
                 IF total > 0 THEN 1000 * (current_ltp * n - total) > k * total
                 ELSE 0 > k
             \* round(momentum, 5), in 1/100000
             value == IF total > 0
                      THEN RoundScaled(100000, current_ltp * n - total, total)
                      ELSE 0
         IN  IF 10 * uptrend_count >= 8 * (n - 1) /\ MomentumAbove(3)
             THEN [value |-> value, signal |-> "VERY_STRONG", trend |-> "CONSISTENT_UP"]
             ELSE IF 10 * uptrend_count >= 7 * (n - 1) /\ MomentumAbove(2)
             THEN [value |-> value, signal |-> "STRONG", trend |-> "MOSTLY_UP"]
             ELSE [value |-> value, signal |-> "WEAK", trend |-> "CHOPPY"]

(* analyze_greeks_strength on the windows that already hold gamma, delta *)
GreeksOf(gammas, deltas, gamma, delta, iv) ==
    LET gamma_increasing ==
            Len(gammas) >= 3 /\ LastThree(gammas)[3] > LastThree(gammas)[1]
        delta_increasing ==
            Len(deltas) >= 3 /\ LastThree(deltas)[3] > LastThree(deltas)[1]
        p1 == IF gamma > 20 THEN 3 ELSE IF gamma > 10 THEN 2 ELSE 0
        p2 == IF gamma_increasing /\ gamma > 5 THEN 2 ELSE 0
        p3 == IF delta > 70 THEN 3 ELSE IF delta > 60 THEN 2 ELSE 0
        p4 == IF delta_increasing THEN 2 ELSE 0
        p5 == IF 15 < iv /\ iv < 30 THEN 1 ELSE IF iv > 35 THEN 0 - 2 ELSE 0
        score == p1 + p2 + p3 + p4 + p5
    IN  [score |-> score,
         strength |-> IF score >= 8 THEN "VERY_STRONG"
                      ELSE IF score >= 5 THEN "STRONG"
                      ELSE "WEAK",
         gamma |-> gamma, delta |-> delta, iv |-> iv,
         gamma_increasing |-> gamma_increasing,
         delta_increasing |-> delta_increasing,
         n_signals |-> Cardinality({k \in 1..5 : <<p1, p2, p3, p4, p5>>[k] # 0})]

(* The analyzer's dictionaries after calculate_volume_spike(symbol, v) *)
PushVolume(an, symbol, v) ==
    [an EXCEPT
        !.volume_history = Put(@, symbol, DequePush(Get(@, symbol, <<>>), v, VolumeWindow)),
        !.tick_count = Put(@, symbol, Get(@, symbol, 0) + 1)]

(* ... after calculate_momentum(symbol, ltp) *)
PushPrice(an, symbol, ltp) ==
    [an EXCEPT
        !.price_history = Put(@, symbol, DequePush(Get(@, symbol, <<>>), ltp, lookback_ticks))]

(* ... after analyze_greeks_strength(symbol, greeks) *)
PushGreeks(an, symbol, gamma, delta) ==
    [an EXCEPT
        !.gamma_history = Put(@, symbol, DequePush(Get(@, symbol, <<>>), gamma, GreeksWindow)),
        !.delta_history = Put(@, symbol, DequePush(Get(@, symbol, <<>>), delta, GreeksWindow))]

PushOi(an, symbol, oi) ==
    [an EXCEPT
        !.oi_history = Put(@, symbol, DequePush(Get(@, symbol, <<>>), oi, OiWindow))]

PushOfi(an, symbol, value) ==
    [an EXCEPT
        !.ofi_history = Put(@, symbol, DequePush(Get(@, symbol, <<>>), value, OfiWindow))]

GreeksIv(greeks) == IF "iv" \in DOMAIN greeks THEN NumOf(greeks["iv"]) ELSE 0

NoSignal == [action |-> "NONE"]

QuorumReached_FourOfSeven(signal_count) == signal_count >= 4

QuorumReached_ThreeOfSeven(signal_count) == signal_count >= 3

QuorumReached_SixOfSeven(signal_count) == signal_count >= 6

(* if signal_count >= 5 *)
QuorumReached(signal_count) == signal_count >= 5

StrictConfidence_PerMille(confidence_score) ==
    RoundHalfEven(Min(confidence_score, 1000), 100)

StrictConfidence_Uncapped(confidence_score) == RoundHalfEven(confidence_score, 10)

(* confidence = min(confidence_score / 100, 1.0); round(confidence, 2) *)
StrictConfidence(confidence_score) == RoundHalfEven(Min(confidence_score, 1000), 10)

(* check_strong_buy_signal: the dictionaries it leaves, what it returns    *)
(* (ret) and which of its seven conditions it found satisfied (conds).     *)
(* Traded quantities are whole numbers, which int(ltq) leaves as they are. *)
check_strong_buy_signal(an, symbol, tick_data) ==
    LET tbq == NumOf(Get(tick_data, "tbq", Num(0)))
        tsq == NumOf(Get(tick_data, "tsq", Num(0)))
        ltpc == Get(tick_data, "ltpc", <<>>)
        ltp == NumOf(Get(ltpc, "ltp", Num(0)))
        ltq == NumOf(Get(ltpc, "ltq", Num(0)))
        ofi_result == calculate_ofi(tbq, tsq)
        c1 == ofi_result.signal \in {"VERY_STRONG_BUY", "STRONG_BUY"}
        an2 == PushVolume(an, symbol, ltq)
        volume_spike == VolumeSpikeOf(an2.volume_history[symbol], ltq)
        c2 == volume_spike.signal \in {"EXTREME_SPIKE", "VERY_STRONG_SPIKE", "STRONG_SPIKE"}
        an3 == PushPrice(an2, symbol, ltp)
        momentum == MomentumOf(an3.price_history[symbol], ltp)
        c3 == momentum.signal \in {"VERY_STRONG", "STRONG"}
        greeks == Get(tick_data, "optionGreeks", <<>>)
        gamma == NumOf(Get(greeks, "gamma", Num(0)))
        delta == NumOf(Get(greeks, "delta", Num(0)))
        an4 == PushGreeks(an3, symbol, gamma, delta)
        greeks_analysis == GreeksOf(an4.gamma_history[symbol], an4.delta_history[symbol],
                                    gamma, delta, GreeksIv(greeks))
        c4 == greeks_analysis.strength \in {"VERY_STRONG", "STRONG"}
        oi_before == Get(an4.oi_history, symbol, <<>>)
        current_oi == NumOf(Get(tick_data, "oi", Num(0)))
        \* current_oi > avg_oi * 1.1
        c5 == Len(oi_before) > 0
              /\ 10 * current_oi * Len(oi_before) > 11 * SumSeq(oi_before)
        an5 == PushOi(an4, symbol, current_oi)
        bid_ask_quotes == Get(Get(tick_data, "marketLevel", <<>>), "bidAskQuote", <<>>)
        top_ask == IF bid_ask_quotes = <<>> THEN 0
                   ELSE NumOf(Get(bid_ask_quotes[1], "askP", Num(0)))
        c6 == bid_ask_quotes # <<>> /\ ltp >= top_ask /\ top_ask > 0
        an6 == PushOfi(an5, symbol, ofi_result.value)
        ofis == an6.ofi_history[symbol]
        c7 == Len(ofis) >= 3 /\ \A i \in 1..3 : LastThree(ofis)[i] > 5000
        B(c) == IF c THEN 1 ELSE 0
        signal_count == B(c1) + B(c2) + B(c3) + B(c4) + B(c5) + B(c6) + B(c7)
        \* what each condition adds to confidence_score, in 1/10 point
        points == <<IF c1 THEN ofi_result.strength * 20 ELSE 0,
                    IF c2 THEN volume_spike.strength * 15 ELSE 0,
                    IF c3 THEN 150 ELSE 0,
                    IF c4 THEN greeks_analysis.score * 20 ELSE 0,
                    B(c5) * 100, B(c6) * 100, B(c7) * 100>>
        confidence_score ==
            (IF c1 THEN ofi_result.strength * 20 ELSE 0)
            + (IF c2 THEN volume_spike.strength * 15 ELSE 0)
            + (IF c3 THEN 150 ELSE 0)
            + (IF c4 THEN greeks_analysis.score * 20 ELSE 0)
            + B(c5) * 100 + B(c6) * 100 + B(c7) * 100
    IN  [an |-> an6,
         score |-> confidence_score,
         points |-> points,
         conds |-> (IF c1 THEN {1} ELSE {}) \cup (IF c2 THEN {2} ELSE {})
                   \cup (IF c3 THEN {3} ELSE {}) \cup (IF c4 THEN {4} ELSE {})
                   \cup (IF c5 THEN {5} ELSE {}) \cup (IF c6 THEN {6} ELSE {})
                   \cup (IF c7 THEN {7} ELSE {}),
         ret |-> IF QuorumReached(signal_count)
                 THEN [action |-> "STRONG_BUY",
                       symbol |-> symbol,
                       entry |-> ltp,
                       confidence |-> StrictConfidence(confidence_score),
                       signal_count |-> signal_count,
                       total_conditions |-> TotalConditions,
                       ofi |-> ofi_result.value,
                       volume_ratio |-> volume_spike.ratio]
                 ELSE NoSignal]

SellSignal_LikeLenient(tick_data) ==
    IF NumOf(Get(tick_data, "tsq", Num(0))) > NumOf(Get(tick_data, "tbq", Num(0)))
    THEN [action |-> "SELL"] ELSE NoSignal

(* 'sell': None *)
SellSignal(tick_data) == NoSignal

(* analyze_tick: every indicator is computed once here and once more by    *)
(* check_strong_buy_signal.                                                *)
analyze_tick(an, symbol, tick_data) ==
    LET tbq == NumOf(Get(tick_data, "tbq", Num(0)))
        tsq == NumOf(Get(tick_data, "tsq", Num(0)))
        ltpc == Get(tick_data, "ltpc", <<>>)
        ltp == NumOf(Get(ltpc, "ltp", Num(0)))
        ltq == NumOf(Get(ltpc, "ltq", Num(0)))
        ofi == calculate_ofi(tbq, tsq)
        an2 == PushVolume(an, symbol, ltq)
        volume_spike == VolumeSpikeOf(an2.volume_history[symbol], ltq)
        an3 == PushPrice(an2, symbol, ltp)
        momentum == MomentumOf(an3.price_history[symbol], ltp)
        greeks == Get(tick_data, "optionGreeks", <<>>)
        gamma == NumOf(Get(greeks, "gamma", Num(0)))
        delta == NumOf(Get(greeks, "delta", Num(0)))
        an4 == PushGreeks(an3, symbol, gamma, delta)
        greeks_analysis == GreeksOf(an4.gamma_history[symbol], an4.delta_history[symbol],
                                    gamma, delta, GreeksIv(greeks))
        chk == check_strong_buy_signal(an4, symbol, tick_data)
    \* an, conds, score and points as check_strong_buy_signal leaves them
    IN  [chk EXCEPT !.ret =
             [symbol |-> symbol,
              ltp |-> ltp,
              indicators |-> [ofi |-> ofi, volume_spike |-> volume_spike,
                              momentum |-> momentum, greeks |-> greeks_analysis],
              signals |-> [buy |-> @, sell |-> SellSignal(tick_data)]]]

(* StrongSignalAnalyzer.__init__: every dictionary is empty *)
FreshAnalyzer ==
    [price_history |-> <<>>, volume_history |-> <<>>, delta_history |-> <<>>,
     gamma_history |-> <<>>, oi_history |-> <<>>, ofi_history |-> <<>>,
     tick_count |-> <<>>]

NoCall == [op |-> "none", symbol |-> "", conds |-> {}, buy |-> NoSignal, result |-> NoSignal]

(* Decoded marketFF messages offered to the analyzer at last price ltp *)
MakeTick(tbq, tsq, ltp, ltq, gamma, delta, oi, askP) ==
    [tbq |-> Num(tbq), tsq |-> Num(tsq),
     ltpc |-> [ltp |-> Num(ltp), ltq |-> Num(ltq)],
     optionGreeks |-> [gamma |-> Num(gamma), delta |-> Num(delta)],
     oi |-> Num(oi), iv |-> Num(20),
     marketLevel |-> [bidAskQuote |-> <<[askP |-> Num(askP)]>>]]

QuietTick(ltp) == MakeTick(400, 600, ltp, 100, 5, 50, 1000, ltp + 10)
HotTick(ltp) == MakeTick(900, 100, ltp, 5000, 25, 75, 2000, ltp)
HotTickAskAbove(ltp) == MakeTick(900, 100, ltp, 5000, 25, 75, 2000, ltp + 10)
HotTickWeakGreeks(ltp) == MakeTick(900, 100, ltp, 5000, 5, 50, 2000, ltp)
(* a hot tick with a very heavy quantity, gamma and delta above a hot      *)
(* tick's and a moderate iv among its greeks                               *)
BlazingTick(ltp) ==
    [HotTick(ltp) EXCEPT !.ltpc.ltq = Num(100000),
                         !.optionGreeks = [gamma |-> Num(30), delta |-> Num(80),
                                           iv |-> Num(20)]]
(* missing, empty and non-numeric fields; no order book *)
SparseTick(ltp) ==
    [tbq |-> Text, tsq |-> NoValue, ltpc |-> [ltp |-> Num(ltp)],
     optionGreeks |-> [gamma |-> NoValue, iv |-> Num(40)]]

Ticks(ltp) ==
    {QuietTick(ltp), HotTick(ltp), HotTickAskAbove(ltp), HotTickWeakGreeks(ltp),
     SparseTick(ltp)}

LastPrice(symbol) ==
    LET prices == Get(strong.price_history, symbol, <<>>)
    IN  IF prices = <<>> THEN BasePrice ELSE prices[Len(prices)]

(* the next tick trades at the last price or one step above it *)
Prices(symbol) == {LastPrice(symbol), LastPrice(symbol) + PriceStep}

(* The analyzer after n quiet ticks at the base price went through          *)
(* analyze_tick                                                             *)
RECURSIVE AfterQuietTicks(_, _)
AfterQuietTicks(symbol, n) ==
    IF n = 0 THEN FreshAnalyzer
    ELSE analyze_tick(AfterQuietTicks(symbol, n - 1), symbol, QuietTick(BasePrice)).an

MayCall ==
    \/ nTicks < MaxTicks
    \/ nTicks >= PrimeTicks /\ nTicks < PrimeTicks + MaxTicks

AnalyzeTick(symbol, tick_data) ==
    /\ MayCall
    /\ \E r \in {analyze_tick(strong, symbol, tick_data)} :
           /\ strong' = r.an
           /\ lastCall' = [op |-> "analyze_tick", symbol |-> symbol, conds |-> r.conds,
                           score |-> r.score, buy |-> r.ret.signals.buy, result |-> r.ret,
                           tick |-> tick_data, points |-> r.points]
    /\ nTicks' = nTicks + 1
    /\ UNCHANGED <<engVars, extVars, hubVars, pubVars, connVars, message_count>>

CheckStrongBuySignal(symbol, tick_data) ==
    /\ MayCall
    /\ \E r \in {check_strong_buy_signal(strong, symbol, tick_data)} :
           /\ strong' = r.an
           /\ lastCall' = [op |-> "check_strong_buy_signal", symbol |-> symbol,
                           conds |-> r.conds, score |-> r.score, buy |-> r.ret,
                           result |-> NoSignal, tick |-> tick_data, points |-> r.points]
    /\ nTicks' = nTicks + 1
    /\ UNCHANGED <<engVars, extVars, hubVars, pubVars, connVars, message_count>>

----------------------------------------------------------------------------
(* SignalAnalyzer (signal_analyzer.py), the graded engine.  Its price      *)
(* window holds floats as to_num hands them over, non-finite ones too.     *)

(* SignalAnalyzer.__init__ *)
FreshSignalAnalyzer ==
    [price_history |-> <<>>, volume_history |-> <<>>, delta_history |-> <<>>,
     oi_history |-> <<>>, tick_count |-> <<>>]

(* sum(q) of a window of floats *)
SumOf(q) ==
    LET kinds == {q[i].kind : i \in 1..Len(q)}
    IN  IF "nan" \in kinds \/ {"inf", "ninf"} \subseteq kinds THEN NaN
        ELSE IF "inf" \in kinds THEN PosInf
        ELSE IF "ninf" \in kinds THEN NegInf
        ELSE Fin(SumSeq([i \in 1..Len(q) |-> q[i].val]))

(* avg_price = sum(prices) / len(prices);                                  *)
(* momentum = (current_ltp - avg_price) / avg_price if avg_price > 0 else 0 *)
(* on a window that holds current_ltp, rounded to five places.  With an    *)
(* infinite sum the quotient is (x - inf) / inf, which is nan.             *)
MomentumValue(prices, current_ltp) ==
    LET total == SumOf(prices)
        n == Len(prices)
    IN  IF total.kind = "inf" THEN NaN
        ELSE IF total.kind = "fin" /\ total.val > 0
        THEN Fin(RoundScaled(100000, current_ltp.val * n - total.val, total.val))
        ELSE Fin(0)

(* SignalAnalyzer.calculate_momentum on the window that already holds      *)
(* current_ltp                                                             *)
GradedMomentumOf(prices, current_ltp) ==
    IF Len(prices) < 2
    THEN [value |-> Fin(0), signal |-> "NEUTRAL"]
    ELSE LET total == SumOf(prices)
             n == Len(prices)
             value == MomentumValue(prices, current_ltp)
             rising == /\ IsFinite(value) /\ total.kind = "fin" /\ total.val > 0
                       /\ 1000 * (current_ltp.val * n - total.val) > total.val
             falling == /\ IsFinite(value) /\ total.kind = "fin" /\ total.val > 0
                        /\ 1000 * (current_ltp.val * n - total.val) < 0 - total.val
         IN  [value |-> value,
              signal |-> IF rising THEN "BULLISH"
                         ELSE IF falling THEN "BEARISH" ELSE "NEUTRAL"]

(* SignalAnalyzer.calculate_volume_spike on the window that already holds  *)
(* current_volume; ratio and strength in 1/100                             *)
GradedVolumeSpikeOf(window, current_volume) ==
    IF Len(window) < 5
    THEN [ratio |-> 100, signal |-> "NEUTRAL", strength |-> 0]
    ELSE LET total == SumSeq(window)
             n == Len(window)
             AtLeast(k) == IF total > 0 THEN current_volume * n >= k * total
                           ELSE 1 >= k
             ratio == IF total > 0 THEN RoundHalfEven(100 * current_volume * n, total)
                      ELSE 100
         IN  [ratio |-> ratio,
              signal |-> IF AtLeast(3) THEN "VERY_STRONG"
                         ELSE IF AtLeast(2) THEN "STRONG_MOVE" ELSE "NORMAL",
              strength |->
                  IF AtLeast(3)
                  THEN Min(RoundHalfEven(100 * (current_volume * n - 3 * total),
                                         2 * total), 100)
                  ELSE IF AtLeast(2)
                  THEN RoundHalfEven(100 * (current_volume * n - 2 * total), total)
                  ELSE 0]

(* The graded engine's signal checks are modelled on finite numbers: the   *)
(* coerced field as a scaled integer (delta in 1/100, the OFI value in     *)
(* 1/10000, the volume ratio and the confidence in 1/100).                 *)
GradedNumOf(value) == to_num_signal(value).val

(* ... after calculate_volume_spike(symbol, v) *)
GradedPushVolume(an, symbol, v) ==
    [an EXCEPT
        !.volume_history = Put(@, symbol, DequePush(Get(@, symbol, <<>>), v, VolumeWindow)),
        !.tick_count = Put(@, symbol, Get(@, symbol, 0) + 1)]

(* ... after calculate_momentum(symbol, ltp) *)
GradedPushPrice(an, symbol, ltp) ==
    [an EXCEPT
        !.price_history = Put(@, symbol, DequePush(Get(@, symbol, <<>>), ltp, lookback_ticks))]

BuyQuorum_TwoOfFive(signal_count) == signal_count >= 2

(* if signal_count >= 3 *)
BuyQuorum(signal_count) == signal_count >= 3

BuyConfidence_OfThree(signal_count) == RoundHalfEven(100 * signal_count, 3)

(* confidence = signal_count / 5.0; round(confidence, 2) *)
BuyConfidence(signal_count) == RoundHalfEven(100 * signal_count, 5)

(* SignalAnalyzer.check_buy_signal: the dictionaries it leaves, what it    *)
(* returns (ret), which of its five conditions it found satisfied (conds)  *)
(* and the descriptions it collected (signals, one tag per description).   *)
check_buy_signal(an, symbol, tick_data) ==
    LET tbq == GradedNumOf(Get(tick_data, "tbq", Num(0)))
        tsq == GradedNumOf(Get(tick_data, "tsq", Num(0)))
        ltpc == Get(tick_data, "ltpc", <<>>)
        ltp == GradedNumOf(Get(ltpc, "ltp", Num(0)))
        ltq == GradedNumOf(Get(ltpc, "ltq", Num(0)))
        ofi_result == calculate_ofi_graded(tbq, tsq)
        c1 == ofi_result.value > 5000
        bid_ask_quotes == Get(Get(tick_data, "marketLevel", <<>>), "bidAskQuote", <<>>)
        top_ask == IF bid_ask_quotes = <<>> THEN 0
                   ELSE GradedNumOf(Get(bid_ask_quotes[1], "askP", Num(0)))
        c2 == bid_ask_quotes # <<>> /\ ltp >= top_ask /\ top_ask > 0
        an2 == GradedPushVolume(an, symbol, ltq)
        volume_spike == GradedVolumeSpikeOf(an2.volume_history[symbol], ltq)
        c3 == volume_spike.ratio > 200
        deltas == Get(an2.delta_history, symbol, <<>>)
        current_delta == GradedNumOf(Get(Get(tick_data, "optionGreeks", <<>>), "delta", Num(0)))
        c4 == Len(deltas) > 0 /\ current_delta > deltas[Len(deltas)]
        an3 == [an2 EXCEPT !.delta_history =
                               Put(@, symbol, DequePush(deltas, current_delta, GreeksWindow))]
        ois == Get(an3.oi_history, symbol, <<>>)
        current_oi == GradedNumOf(Get(tick_data, "oi", Num(0)))
        c5 == Len(ois) > 0 /\ current_oi > ois[Len(ois)]
        an4 == [an3 EXCEPT !.oi_history =
                               Put(@, symbol, DequePush(ois, current_oi, OiWindow))]
        B(c) == IF c THEN 1 ELSE 0
        signal_count == B(c1) + B(c2) + B(c3) + B(c4) + B(c5)
        signals == (IF c1 THEN <<"Strong Buy Flow">> ELSE <<>>)
                   \o (IF c2 THEN <<"Breaking Ask">> ELSE <<>>)
                   \o (IF c3 THEN <<"Volume Spike">> ELSE <<>>)
                   \o (IF c4 THEN <<"Delta Rising">> ELSE <<>>)
                   \o (IF c5 THEN <<"OI Increasing">> ELSE <<>>)
    IN  [an |-> an4,
         conds |-> (IF c1 THEN {1} ELSE {}) \cup (IF c2 THEN {2} ELSE {})
                   \cup (IF c3 THEN {3} ELSE {}) \cup (IF c4 THEN {4} ELSE {})
                   \cup (IF c5 THEN {5} ELSE {}),
         signals |-> signals,
         ret |-> IF BuyQuorum(signal_count)
                 THEN [action |-> "BUY",
                       symbol |-> symbol,
                       entry |-> ltp,
                       confidence |-> BuyConfidence(signal_count),
                       signal_count |-> signal_count,
                       signals |-> signals]
                 ELSE NoSignal]

(* SignalAnalyzer.check_sell_signal as analyze_tick calls it (no entry     *)
(* price): it reads the windows and changes none.                          *)
check_sell_signal(an, symbol, tick_data) ==
    LET tbq == GradedNumOf(Get(tick_data, "tbq", Num(0)))
        tsq == GradedNumOf(Get(tick_data, "tsq", Num(0)))
        ltp == GradedNumOf(Get(Get(tick_data, "ltpc", <<>>), "ltp", Num(0)))
        prices == Get(an.price_history, symbol, <<>>)
        deltas == Get(an.delta_history, symbol, <<>>)
        s1 == calculate_ofi_graded(tbq, tsq).value < 2000
        s2 == Len(prices) > 1 /\ ltp < prices[Len(prices) - 1].val
        s3 == Get(an.tick_count, symbol, 0) > 2 /\ tbq < tsq
        s4 == Len(deltas) > 1 /\ deltas[Len(deltas)] < deltas[Len(deltas) - 1] - 2
        B(c) == IF c THEN 1 ELSE 0
        signal_count == B(s1) + B(s2) + B(s3) + B(s4)
    IN  IF signal_count >= 3
        THEN [action |-> "SELL", symbol |-> symbol, exit |-> ltp,
              signal_count |-> signal_count, reason |-> "Weakness Detected"]
        ELSE NoSignal

(* SignalAnalyzer.analyze_tick: calculate_momentum and                     *)
(* calculate_volume_spike run here, and calculate_volume_spike once more   *)
(* inside check_buy_signal.                                                *)
graded_analyze_tick(an, symbol, tick_data) ==
    LET tbq == GradedNumOf(Get(tick_data, "tbq", Num(0)))
        tsq == GradedNumOf(Get(tick_data, "tsq", Num(0)))
        ltpc == Get(tick_data, "ltpc", <<>>)
        ltp == to_num_signal(Get(ltpc, "ltp", Num(0)))
        ltq == GradedNumOf(Get(ltpc, "ltq", Num(0)))
        ofi == calculate_ofi_graded(tbq, tsq)
        an2 == GradedPushPrice(an, symbol, ltp)
        momentum == GradedMomentumOf(an2.price_history[symbol], ltp)
        an3 == GradedPushVolume(an2, symbol, ltq)
        volume_spike == GradedVolumeSpikeOf(an3.volume_history[symbol], ltq)
        chk == check_buy_signal(an3, symbol, tick_data)
    IN  [an |-> chk.an,
         conds |-> chk.conds,
         signals |-> chk.signals,
         ret |-> [symbol |-> symbol,
                  ltp |-> ltp.val,
                  indicators |-> [ofi |-> ofi, momentum |-> momentum,
                                  volume_spike |-> volume_spike],
                  signals |-> [buy |-> chk.ret,
                               sell |-> check_sell_signal(chk.an, symbol, tick_data)]]]

----------------------------------------------------------------------------
(* BigMoveDetector (bigmove_detector.py).                                  *)
(*                                                                         *)
(* Volumes and quantities are whole numbers, prices in 1/100, gamma in     *)
(* 1/10000, delta and iv in 1/100.  The running average of a symbol is the *)
(* exact fraction num/den, or a non-finite float.                          *)

(* x > k for a float x and a finite k *)
Above(x, k) == x.kind = "inf" \/ (x.kind = "fin" /\ x.val > k)

(* abs(x) *)
AbsOf(x) ==
    IF x.kind = "ninf" THEN PosInf
    ELSE IF x.kind = "fin" /\ x.val < 0 THEN Fin(0 - x.val)
    ELSE x

(* the fraction num/den in lower terms (the same number) *)
RECURSIVE Avg(_, _)
Avg(num, den) ==
    IF den % 10 = 0 /\ num % 10 = 0 THEN Avg(num \div 10, den \div 10)
    ELSE [kind |-> "fin", num |-> num, den |-> den]
AvgNonFinite(kind) == [kind |-> kind, num |-> 0, den |-> 1]

GreeksPoints(x, high, mid, low) ==
    IF Above(x, high) THEN 5 ELSE IF Above(x, mid) THEN 3 ELSE IF Above(x, low) THEN 1 ELSE 0

calculate_greeks_score(gamma, delta, iv) ==
    Min(GreeksPoints(gamma, 10, 5, 1) + GreeksPoints(AbsOf(delta), 70, 50, 30)
            + GreeksPoints(iv, 30, 20, 10),
        15)

AvgVolume_SeededAtVolume(det, symbol, volume) ==
    IF symbol \in DOMAIN det.avg_volumes THEN det.avg_volumes[symbol]
    ELSE IF volume.kind = "inf" THEN AvgNonFinite("inf")
    ELSE IF volume.kind = "fin" /\ volume.val > 0 THEN Avg(volume.val, 1)
    ELSE Avg(1, 1)

(* avg_vol = self.avg_volumes.get(symbol, volume / 10 if volume > 0 else 1) *)
AvgVolume(det, symbol, volume) ==
    IF symbol \in DOMAIN det.avg_volumes THEN det.avg_volumes[symbol]
    ELSE IF volume.kind = "inf" THEN AvgNonFinite("inf")
    ELSE IF volume.kind = "fin" /\ volume.val > 0 THEN Avg(volume.val, 10)
    ELSE Avg(1, 1)

(* volume / avg_vol if avg_vol > 0 else 0, compared with k2 / 2 *)
VolumeRatioAbove(volume, avg_vol, k2) ==
    /\ avg_vol.kind = "fin"
    /\ avg_vol.num > 0
    /\ \/ volume.kind = "inf"
       \/ volume.kind = "fin" /\ 2 * volume.val * avg_vol.den > k2 * avg_vol.num

(* avg_vol * 0.9 + volume * 0.1 *)
NextAvgVolume(avg_vol, volume) ==
    IF avg_vol.kind = "nan" THEN AvgNonFinite("nan")
    ELSE IF avg_vol.kind = "fin"
    THEN IF volume.kind = "fin"
         THEN Avg(9 * avg_vol.num + volume.val * avg_vol.den, 10 * avg_vol.den)
         ELSE AvgNonFinite(volume.kind)
    ELSE IF volume.kind \in {"fin", avg_vol.kind} THEN avg_vol
    ELSE AvgNonFinite("nan")

(* tbq / tsq if tsq > 0 else 0, compared with k2 / 2 *)
ObRatioAbove(tbq, tsq, k2) ==
    /\ tsq.kind = "fin"
    /\ tsq.val > 0
    /\ \/ tbq.kind = "inf"
       \/ tbq.kind = "fin" /\ 2 * tbq.val > k2 * tsq.val

(* the candle with interval I1, or the first one *)
PickCandle(candles) ==
    LET ones == {i \in 1..Len(candles) : Get(candles[i], "interval", "") = "I1"}
    IN  IF ones = {} THEN candles[1]
        ELSE candles[CHOOSE i \in ones : \A j \in ones : i <= j]

(* ((high - low) / low) * 100 if low > 0 else 0.0, compared with k2 / 2 *)
PriceRangeAbove(candles, k2) ==
    /\ candles # <<>>
    /\ LET candle == PickCandle(candles)
           high == to_num_bigmove(Get(candle, "high", Num(0)))
           low == to_num_bigmove(Get(candle, "low", Num(0)))
       IN  /\ DOMAIN candle # {}
           /\ low.kind = "fin"
           /\ low.val > 0
           /\ \/ high.kind = "inf"
              \/ high.kind = "fin" /\ 200 * (high.val - low.val) > k2 * low.val

VolumeFactor_Proportional(volume, avg_vol) ==
    IF VolumeRatioAbove(volume, avg_vol, 20) THEN 70
    ELSE IF VolumeRatioAbove(volume, avg_vol, 10) THEN 35
    ELSE IF VolumeRatioAbove(volume, avg_vol, 6) THEN 25
    ELSE IF VolumeRatioAbove(volume, avg_vol, 4) THEN 15
    ELSE IF VolumeRatioAbove(volume, avg_vol, 3) THEN 8 ELSE 0

VolumeFactor(volume, avg_vol) ==
    IF VolumeRatioAbove(volume, avg_vol, 10) THEN 35
    ELSE IF VolumeRatioAbove(volume, avg_vol, 6) THEN 25
    ELSE IF VolumeRatioAbove(volume, avg_vol, 4) THEN 15
    ELSE IF VolumeRatioAbove(volume, avg_vol, 3) THEN 8 ELSE 0

PriceRangeFactor(candles) ==
    IF PriceRangeAbove(candles, 6) THEN 30
    ELSE IF PriceRangeAbove(candles, 4) THEN 20
    ELSE IF PriceRangeAbove(candles, 2) THEN 12
    ELSE IF PriceRangeAbove(candles, 1) THEN 5 ELSE 0

OrderBookFactor(tbq, tsq) ==
    IF ObRatioAbove(tbq, tsq, 10) THEN 20
    ELSE IF ObRatioAbove(tbq, tsq, 6) THEN 15
    ELSE IF ObRatioAbove(tbq, tsq, 4) THEN 10
    ELSE IF ObRatioAbove(tbq, tsq, 3) THEN 5 ELSE 0

(* ob_ratio < 0.33 and ob_ratio > 0, with ob_ratio = tbq / tsq if tsq > 0  *)
(* else 0                                                                  *)
ObRatioLowAndPositive(tbq, tsq) ==
    /\ tsq.kind = "fin"
    /\ tsq.val > 0
    /\ tbq.kind = "fin"
    /\ tbq.val > 0
    /\ 100 * tbq.val < 33 * tsq.val

(* `delta and ...`, `iv and ...`: a float is false only when it is zero *)
Truthy(x) == ~(x.kind = "fin" /\ x.val = 0)

(* BigMoveDetector.generate_signals: the titles of the alerts, in order *)
generate_signals(volume, avg_vol, candles, tbq, tsq, gamma, delta, iv) ==
    (IF VolumeRatioAbove(volume, avg_vol, 6) THEN <<"Volume Spike">> ELSE <<>>)
    \o (IF PriceRangeAbove(candles, 4) THEN <<"Explosive Candle">> ELSE <<>>)
    \o (IF ObRatioAbove(tbq, tsq, 6) THEN <<"Buy Pressure">>
        ELSE IF ObRatioLowAndPositive(tbq, tsq) THEN <<"Sell Pressure">> ELSE <<>>)
    \o (IF Above(gamma, 5) THEN <<"High Gamma Detected">> ELSE <<>>)
    \o (IF Truthy(delta) /\ Above(AbsOf(delta), 70)
        THEN <<"High Delta Exposure">> ELSE <<>>)
    \o (IF Truthy(iv) /\ Above(iv, 25) THEN <<"High Implied Volatility">> ELSE <<>>)
    \o (IF Above(gamma, 10) /\ Truthy(delta) /\ Above(AbsOf(delta), 60)
        THEN <<"Gamma-Delta Squeeze">> ELSE <<>>)

AlertLevel(score) ==
    IF score >= 75 THEN "CRITICAL"
    ELSE IF score >= 55 THEN "WARNING"
    ELSE IF score >= 35 THEN "WATCH"
    ELSE "NORMAL"

NoResult == [symbol |-> ""]

(* BigMoveDetector.analyze: the detector it leaves (det), whether it       *)
(* raised, what it returned (ret, NoResult for None), the four factors     *)
(* its score was summed from (parts), the titles of the alerts it          *)
(* generated (alerts) and the volume, average volume and book it worked    *)
(* on (locals).  int(volume), int(tbq) and int(tsq) of the returned        *)
(* metrics raise OverflowError on an infinite value.                       *)
analyze(det, symbol, feed_value) ==
    IF \/ "fullFeed" \notin DOMAIN feed_value
       \/ "marketFF" \notin DOMAIN feed_value.fullFeed
       \/ DOMAIN feed_value.fullFeed.marketFF = {}
    THEN [det |-> det, raised |-> FALSE, ret |-> NoResult, parts |-> <<>>,
          alerts |-> <<>>, locals |-> <<>>]
    ELSE LET mff == feed_value.fullFeed.marketFF
             volume == to_num_bigmove(Get(mff, "vtt", Num(0)))
             tbq == to_num_bigmove(Get(mff, "tbq", Num(0)))
             tsq == to_num_bigmove(Get(mff, "tsq", Num(0)))
             greeks == Get(mff, "optionGreeks", <<>>)
             gamma == to_num_bigmove(Get(greeks, "gamma", Num(0)))
             delta == to_num_bigmove(Get(greeks, "delta", Num(0)))
             iv == to_num_bigmove(Get(mff, "iv", Num(0)))
             avg_vol == AvgVolume(det, symbol, volume)
             candles == Get(Get(mff, "marketOHLC", <<>>), "ohlc", <<>>)
             greeks_score == calculate_greeks_score(gamma, delta, iv)
             parts == <<VolumeFactor(volume, avg_vol), PriceRangeFactor(candles),
                        OrderBookFactor(tbq, tsq), greeks_score>>
             score == Min(parts[1] + parts[2] + parts[3] + parts[4], 100)
             det2 == [det EXCEPT !.avg_volumes =
                                     Put(@, symbol, NextAvgVolume(avg_vol, volume))]
             signals == generate_signals(volume, avg_vol, candles, tbq, tsq,
                                         gamma, delta, iv)
             locals == [volume |-> volume, avg_vol |-> avg_vol,
                        tbq |-> tbq, tsq |-> tsq]
         IN  IF IsFinite(volume) /\ IsFinite(tbq) /\ IsFinite(tsq)
             THEN [det |-> det2, raised |-> FALSE,
                   ret |-> [symbol |-> symbol, score |-> score,
                            alertLevel |-> AlertLevel(score),
                            greeksScore |-> greeks_score],
                   parts |-> parts, alerts |-> signals, locals |-> locals]
             ELSE [det |-> det2, raised |-> TRUE, ret |-> NoResult, parts |-> parts,
                   alerts |-> <<>>, locals |-> locals]

(* BigMoveDetector.__init__ *)
FreshDetector == [avg_volumes |-> <<>>]

----------------------------------------------------------------------------
(* A tick stream for one symbol that primes the volume window with ten     *)
(* values averaging 1000 (delta 0.6, gamma 0.001, open interest 1000), and *)
(* then the tick with tbq 900, tsq 100, volume 5000, delta 0.75, gamma     *)
(* 0.0025, IV 0.20, open interest above 1100 and last price at or above    *)
(* the top ask.                                                            *)

PrimingTick(tbq, tsq, ltq) ==
    MakeTick(tbq, tsq, BasePrice, ltq, 10, 60, 1000, BasePrice + 10)

SpikeTick(ltp, oi, askP) == MakeTick(900, 100, ltp, 5000, 25, 75, oi, askP)

VolumesOf(symbol) == Get(strong.volume_history, symbol, <<>>)

(* The stream goes through analyze_tick (which records every volume twice) *)
(* or through check_strong_buy_signal, as its first tick did, and keeps    *)
(* the order book of its first tick.                                       *)
StreamViaAnalyze(symbol) == Get(strong.tick_count, symbol, 0) = 2 * nTicks

StreamBooks(symbol) ==
    LET ofis == Get(strong.ofi_history, symbol, <<>>)
    IN  IF ofis = <<>> THEN {<<900, 100>>, <<400, 600>>}
        ELSE IF ofis[Len(ofis)] > 0 THEN {<<900, 100>>} ELSE {<<400, 600>>}

(* The window can still reach ten values whose sum is 10000; the stream    *)
(* has at most one tick of volume 500 and one of volume 1500.              *)
CanStillPrime(window, perTick) ==
    /\ Len(window) <= 10
    /\ Cardinality({i \in 1..Len(window) : window[i] = 500}) <= perTick
    /\ Cardinality({i \in 1..Len(window) : window[i] = 1500}) <= perTick
    /\ Len(window) = 10 => SumSeq(window) = 10000

Primed(symbol) ==
    /\ Len(VolumesOf(symbol)) = 10
    /\ SumSeq(VolumesOf(symbol)) = 10000

PrimeCall(symbol, tick_data, viaAnalyze) ==
    /\ lastCall.op \in {"none", "analyze_tick", "check_strong_buy_signal"}
    /\ nTicks > 0 => (viaAnalyze <=> StreamViaAnalyze(symbol))
    /\ \E r \in {IF viaAnalyze THEN analyze_tick(strong, symbol, tick_data)
                 ELSE check_strong_buy_signal(strong, symbol, tick_data)} :
           /\ CanStillPrime(r.an.volume_history[symbol], IF viaAnalyze THEN 2 ELSE 1)
           /\ strong' = r.an
           /\ lastCall' = IF viaAnalyze
                          THEN [op |-> "analyze_tick", symbol |-> symbol,
                                conds |-> r.conds, buy |-> r.ret.signals.buy,
                                result |-> r.ret]
                          ELSE [op |-> "check_strong_buy_signal", symbol |-> symbol,
                                conds |-> r.conds, buy |-> r.ret, result |-> NoSignal]
    /\ nTicks' = nTicks + 1
    /\ UNCHANGED <<engVars, extVars, hubVars, pubVars, connVars, message_count>>

(* the tick of the scenario arrives on the primed window *)
SpikeCall(symbol, tick_data, viaAnalyze) ==
    /\ lastCall.op \in {"analyze_tick", "check_strong_buy_signal"}
    /\ Primed(symbol)
    /\ \E r \in {IF viaAnalyze THEN analyze_tick(strong, symbol, tick_data)
                 ELSE check_strong_buy_signal(strong, symbol, tick_data)} :
           /\ strong' = r.an
           /\ lastCall' = [op |-> "spike_tick", symbol |-> symbol, conds |-> r.conds,
                           buy |-> IF viaAnalyze THEN r.ret.signals.buy ELSE r.ret,
                           result |-> NoSignal]
    /\ nTicks' = nTicks + 1
    /\ UNCHANGED <<engVars, extVars, hubVars, pubVars, connVars, message_count>>

(* calculate_volume_spike(symbol, current_volume), called on its own *)
CalculateVolumeSpike(symbol, current_volume) ==
    /\ lastCall.op \in {"analyze_tick", "check_strong_buy_signal"}
    /\ Primed(symbol)
    /\ \E an2 \in {PushVolume(strong, symbol, current_volume)} :
           /\ strong' = an2
           /\ lastCall' = [op |-> "calculate_volume_spike", symbol |-> symbol,
                           prior |-> VolumesOf(symbol), current |-> current_volume,
                           result |-> VolumeSpikeOf(an2.volume_history[symbol],
                                                    current_volume)]
    /\ nTicks' = nTicks + 1
    /\ UNCHANGED <<engVars, extVars, hubVars, pubVars, connVars, message_count>>

----------------------------------------------------------------------------
(* Calls of single functions of the three engines *)

Engines == {"strict", "graded", "bigmove"}

(* what a numeric field of a decoded message can hold *)
RawValues ==
    {Num(0), Num(1), Num(125), Num(0 - 3), Num(1000000), NoValue, EmptyText, Text,
     NaNValue, InfValue, NegInfValue}

(* the total quantities of a tick: counts, or fields that are no number *)
RawQuantities == {Num(0), Num(100), Num(650), Num(900), NoValue, EmptyText, Text}

ToNumOf(engine, value) ==
    CASE engine = "strict" -> to_num(value)
      [] engine = "graded" -> to_num_signal(value)
      [] engine = "bigmove" -> to_num_bigmove(value)

ToNum(engine, value) ==
    /\ lastCall' = [op |-> "to_num", engine |-> engine, arg |-> value,
                    result |-> ToNumOf(engine, value)]
    /\ UNCHANGED <<strong, nTicks, engVars, extVars, hubVars, pubVars, connVars, message_count>>

(* tbq = self.to_num(tick_data.get('tbq', 0)), tsq likewise, and           *)
(* calculate_ofi(tbq, tsq), as every caller of calculate_ofi does          *)
CalculateOfi(engine, tick_data) ==
    /\ engine \in {"strict", "graded"}
    /\ LET tbq == ToNumOf(engine, Get(tick_data, "tbq", Num(0))).val
           tsq == ToNumOf(engine, Get(tick_data, "tsq", Num(0))).val
       IN  lastCall' = [op |-> "calculate_ofi", engine |-> engine, arg |-> tick_data,
                        tbq |-> tbq, tsq |-> tsq,
                        result |-> IF engine = "strict" THEN calculate_ofi(tbq, tsq)
                                   ELSE calculate_ofi_graded(tbq, tsq)]
    /\ UNCHANGED <<strong, nTicks, engVars, extVars, hubVars, pubVars, connVars, message_count>>

(* SignalAnalyzer.calculate_momentum(symbol, current_ltp) with the price   *)
(* as to_num coerced it                                                    *)
CalculateMomentum(symbol, value) ==
    /\ strong = FreshAnalyzer
    /\ nTicks < MomentumCalls
    /\ LET current_ltp == to_num_signal(value)
           prices == DequePush(Get(lenient.price_history, symbol, <<>>), current_ltp,
                               lookback_ticks)
       IN  /\ lenient' = [lenient EXCEPT !.price_history = Put(@, symbol, prices)]
           /\ lastCall' = [op |-> "calculate_momentum", engine |-> "graded",
                           recorded |-> Len(prices),
                           result |-> GradedMomentumOf(prices, current_ltp)]
    /\ nTicks' = nTicks + 1
    /\ UNCHANGED <<strong, detector, extVars, hubVars, pubVars, connVars, message_count>>

(* StrongSignalAnalyzer.calculate_momentum(symbol, current_ltp), on finite *)
(* prices                                                                  *)
CalculateMomentumStrict(symbol, value) ==
    /\ lenient = FreshSignalAnalyzer
    /\ nTicks < MomentumCalls
    /\ IsFinite(to_num(value))
    /\ LET current_ltp == NumOf(value)
           an2 == PushPrice(strong, symbol, current_ltp)
           momentum == MomentumOf(an2.price_history[symbol], current_ltp)
       IN  /\ strong' = an2
           /\ lastCall' = [op |-> "calculate_momentum", engine |-> "strict",
                           recorded |-> Len(an2.price_history[symbol]),
                           result |-> [value |-> Fin(momentum.value),
                                       signal |-> momentum.signal]]
    /\ nTicks' = nTicks + 1
    /\ UNCHANGED <<engVars, extVars, hubVars, pubVars, connVars, message_count>>

(* The value of a symbol in a decoded feed message *)
FeedValue(vtt, book, greeks, candles) ==
    [fullFeed |->
        [marketFF |->
            [ltpc |-> [ltp |-> Num(BasePrice)],
             vtt |-> vtt, tbq |-> book[1], tsq |-> book[2],
             optionGreeks |-> [gamma |-> greeks[1], delta |-> greeks[2]],
             iv |-> greeks[3],
             marketOHLC |-> [ohlc |-> candles]]]]

(* a value with the last traded price only: BigMoveDetector.analyze        *)
(* returns None for it                                                     *)
LtpcOnly == [ltpc |-> [ltp |-> Num(BasePrice)]]

FeedVolumes == {Num(0), Num(100), Num(100000), InfValue}
FeedBooks == {<<Num(0), Num(0)>>, <<Num(1000000), Num(1)>>, <<Num(300), Num(100)>>,
              <<InfValue, Num(1)>>}
FeedGreeks == {<<Num(0), Num(0), Num(0)>>,
               <<Num(1000000), Num(0 - 1000000), Num(1000000)>>,
               <<Num(7), Num(60), Num(25)>>}
FeedCandles ==
    {<<>>,
     <<[interval |-> "I1", high |-> Num(15000), low |-> Num(10000)]>>,
     <<[interval |-> "1d", high |-> Num(10000), low |-> Num(0)],
       [interval |-> "I1", high |-> Num(10060), low |-> Num(10000)]>>}

FeedValues ==
    {FeedValue(vtt, book, greeks, candles) :
        vtt \in FeedVolumes, book \in FeedBooks, greeks \in FeedGreeks,
        candles \in FeedCandles} \cup {LtpcOnly}

(* Order books with one side empty, with pressure on either side and      *)
(* at the buy threshold; volumes of a quiet, a usual and a busy tick       *)
AlertBooks == {<<Num(0), Num(0)>>, <<Num(500), Num(0)>>, <<Num(0), Num(500)>>,
               <<Num(400), Num(100)>>, <<Num(100), Num(400)>>, <<Num(300), Num(100)>>}
AlertVolumes == {Num(0), Num(100), Num(1000)}

AlertFeedValues ==
    {FeedValue(vtt, book, <<Num(7), Num(60), Num(25)>>, <<>>) :
        vtt \in AlertVolumes, book \in AlertBooks}

(* BigMoveDetector.analyze(symbol, feed_value) *)
Analyze(symbol, feed_value) ==
    /\ nTicks < MaxTicks
    /\ \E r \in {analyze(detector, symbol, feed_value)} :
           /\ detector' = r.det
           /\ lastCall' = [op |-> "analyze", symbol |-> symbol, raised |-> r.raised,
                           result |-> r.ret, parts |-> r.parts,
                           alerts |-> r.alerts, locals |-> r.locals]
    /\ nTicks' = nTicks + 1
    /\ UNCHANGED <<strong, lenient, extVars, hubVars, pubVars, connVars, message_count>>

----------------------------------------------------------------------------
(* broadcast_data / broadcast_with_analysis: the analysis of a message's   *)
(* feeds, one symbol per step, before the message is counted and sent on   *)

NoOutcome == [symbols |-> {}, analyzed |-> {}, failed |-> {}, count |-> 0, retries |-> 0]

(* a request thread that is not reading a result *)
IdleReader ==
    [pc |-> "idle", route |-> "", symbol |-> "", ref |-> 0, first |-> NoResult,
     second |-> NoResult]

FeedSymbols == {"X", "Y"}

(* state.analysis_results[symbol] = analysis: the dictionary the analysis  *)
(* returned is a new object, and the entry is made to refer to it          *)
StoreResult_InPlace(hp, results, symbol, value) ==
    IF symbol \in DOMAIN results
    THEN [heap |-> [hp EXCEPT ![results[symbol]] = value], results |-> results]
    ELSE [heap |-> Append(hp, value), results |-> Put(results, symbol, Len(hp) + 1)]

StoreResult(hp, results, symbol, value) ==
    [heap |-> Append(hp, value), results |-> Put(results, symbol, Len(hp) + 1)]

(* the marketFF (or indexFF) part that broadcast_data hands to             *)
(* analyze_tick; <<>> when the value has neither                           *)
MffOf(feed_value) ==
    IF "fullFeed" \notin DOMAIN feed_value THEN <<>>
    ELSE IF "marketFF" \in DOMAIN feed_value.fullFeed THEN feed_value.fullFeed.marketFF
    ELSE IF "indexFF" \in DOMAIN feed_value.fullFeed THEN feed_value.fullFeed.indexFF
    ELSE <<>>

(* analyze_tick raises at int(ltq) (OverflowError, ValueError) before it   *)
(* has touched a window when the last traded quantity is not finite        *)
AnalyzeTickRaises(mff) ==
    ~IsFinite(to_num(Get(Get(mff, "ltpc", <<>>), "ltq", Num(0))))

(* A decoded message with feeds arrives and broadcast_data /               *)
(* broadcast_with_analysis starts its loop over data['feeds'].items()      *)
RecvFeed(limit, data) ==
    /\ pc = "stream"
    /\ running
    /\ ws = "open"
    /\ pubPc = "idle"
    /\ message_count < limit
    /\ feed' = data
    /\ feedIdx' = 1
    /\ pubPc' = "analyze"
    /\ outcome' = [symbols |-> {data[i][1] : i \in 1..Len(data)}, analyzed |-> {},
                   failed |-> {}, count |-> message_count, retries |-> retry_count]
    /\ lastRecv' = "message"
    /\ UNCHANGED <<anVars, engVars, storeVars, reader, failedAt, lastSent, stamped, subSent, waited, hubVars,
                   pubIdx, pubEvent,
                   regAtStart, got, connVars, message_count>>

(* analysis = detector.analyze(symbol, feed_value) and the store under the *)
(* lock.  app.py catches what analyze raises and goes on to the signal     *)
(* analysis of the symbol; in app_bigmove.py the exception leaves          *)
(* broadcast_with_analysis and the receive loop, whose try only catches    *)
(* asyncio.TimeoutError, and arrives at the session's handler.             *)
AnalyzeBigMove ==
    /\ pubPc = "analyze"
    /\ feedIdx <= Len(feed)
    /\ lock = "free"
    /\ LET symbol == feed[feedIdx][1]
       IN  \E r \in {analyze(detector, symbol, feed[feedIdx][2])} :
             /\ detector' = r.det
             /\ outcome' = [outcome EXCEPT
                               !.analyzed = @ \cup {symbol},
                               !.failed = IF r.raised THEN @ \cup {symbol} ELSE @]
             /\ IF r.raised \/ r.ret = NoResult
                THEN UNCHANGED <<heap, analysis_results, published>>
                ELSE \E st \in {StoreResult(heap, analysis_results, symbol, r.ret)} :
                        /\ heap' = st.heap
                        /\ analysis_results' = st.results
                        /\ published' = published \cup {r.ret}
             /\ IF r.raised /\ svc = "bigmove"
                THEN /\ OnException
                     /\ pubPc' = "idle"
                     /\ UNCHANGED feedIdx
                ELSE /\ pubPc' = IF svc = "app" THEN "analyze_signal" ELSE "analyze"
                     /\ feedIdx' = IF svc = "app" THEN feedIdx ELSE feedIdx + 1
                     /\ UNCHANGED <<running, pc, retry_count, upstox_connected, ws, waited>>
    /\ UNCHANGED <<anVars, lenient, feed, signal_results, lock, reader, failedAt, lastSent, stamped,
                   subSent, lastRecv, hubVars,
                   pubIdx, pubEvent, regAtStart, got, svc, loop_stopping, attempts,
                   consecFails, credsRejected, message_count>>

(* app.py: signal_analysis = signal_analyzer.analyze_tick(symbol, mff) and *)
(* the store under the lock; what analyze_tick raises is caught            *)
AnalyzeSignal ==
    /\ pubPc = "analyze_signal"
    /\ lock = "free"
    /\ LET symbol == feed[feedIdx][1]
           mff == MffOf(feed[feedIdx][2])
       IN  IF mff = <<>>
           THEN UNCHANGED <<strong, heap, signal_results, published, outcome>>
           ELSE IF AnalyzeTickRaises(mff)
           THEN /\ outcome' = [outcome EXCEPT !.failed = @ \cup {symbol}]
                /\ UNCHANGED <<strong, heap, signal_results, published>>
           ELSE \E r \in {analyze_tick(strong, symbol, mff)} :
                  \E st \in {StoreResult(heap, signal_results, symbol, r.ret)} :
                     /\ strong' = r.an
                     /\ heap' = st.heap
                     /\ signal_results' = st.results
                     /\ published' = published \cup {r.ret}
                     /\ UNCHANGED outcome
    /\ pubPc' = "analyze"
    /\ feedIdx' = feedIdx + 1
    /\ UNCHANGED <<lastCall, nTicks, engVars, feed, analysis_results, lock, reader, failedAt, histVars,
                   hubVars, pubIdx, pubEvent, regAtStart, got, connVars, message_count>>

(* the loop over the feeds is over: the message is counted under the lock  *)
(* and the loop over state.clients begins                                  *)
FeedDone ==
    /\ pubPc = "analyze"
    /\ feedIdx > Len(feed)
    /\ lock = "free"
    /\ pubEvent' = message_count
    /\ stamped' = Stamp(outcome.count)
    /\ message_count' = message_count + 1
    /\ pubPc' = "main"
    /\ pubIdx' = 1
    /\ regAtStart' = Range(clients["main"])
    /\ got' = [c \in Clients |-> 0]
    /\ UNCHANGED <<anVars, engVars, dataVars, lastSent, connHist, hubVars, connVars>>

(* Values of a symbol in a message: an ordinary one, one with a heavy      *)
(* volume, one whose volume is not finite, one whose last traded quantity  *)
(* is not finite, and one without a full feed                              *)
OneMinuteCandle == <<[interval |-> "I1", high |-> Num(10060), low |-> Num(10000)]>>

OrdinaryValue ==
    FeedValue(Num(100), <<Num(300), Num(100)>>, <<Num(7), Num(60), Num(25)>>,
              OneMinuteCandle)

HeavyValue ==
    [FeedValue(Num(100000), <<Num(900), Num(100)>>, <<Num(7), Num(60), Num(25)>>,
               OneMinuteCandle)
        EXCEPT !.fullFeed.marketFF.ltpc = [ltp |-> Num(BasePrice + PriceStep)]]

InfiniteVolumeValue ==
    FeedValue(InfValue, <<Num(300), Num(100)>>, <<Num(7), Num(60), Num(25)>>,
              OneMinuteCandle)

InfiniteQuantityValue ==
    [fullFeed |->
        [marketFF |->
            [ltpc |-> [ltp |-> Num(BasePrice), ltq |-> InfValue],
             vtt |-> Num(100), tbq |-> Num(300), tsq |-> Num(100)]]]

MessageValues ==
    {OrdinaryValue, HeavyValue, InfiniteVolumeValue, InfiniteQuantityValue, LtpcOnly}

(* data['feeds'] with one symbol, or with two *)
FeedMessages ==
    {<<<<"X", v>>>> : v \in MessageValues}
        \cup {<<<<"X", v>>, <<"Y", w>>>> : v \in MessageValues, w \in MessageValues}

----------------------------------------------------------------------------
(* Request threads: get_analysis and get_signals serialize the stored      *)
(* results while they hold state.lock, health walks state.signal_results   *)
(* without it.  A thread takes the reference to a result and then reads    *)
(* the fields of the object at two later moments.                          *)

Routes == {"get_analysis", "get_signals", "health"}

Locked(route) == route \in {"get_analysis", "get_signals"}

ResultsOf(route) ==
    IF route = "get_analysis" THEN analysis_results ELSE signal_results

(* the fields a thread reads at the first of the two moments *)
FirstFields == {"symbol", "score", "ltp"}

(* what the thread has read of the object *)
Snapshot(rd) ==
    [f \in DOMAIN rd.second |-> IF f \in FirstFields THEN rd.first[f] ELSE rd.second[f]]

ReadBegin(route, symbol) ==
    /\ reader.pc = "idle"
    /\ symbol \in DOMAIN ResultsOf(route)
    /\ Locked(route) => lock = "free"
    /\ lock' = IF Locked(route) THEN "reader" ELSE lock
    /\ reader' = [pc |-> "first", route |-> route, symbol |-> symbol,
                  ref |-> ResultsOf(route)[symbol], first |-> NoResult,
                  second |-> NoResult]
    /\ UNCHANGED <<anVars, engVars, feedVars, heap, analysis_results, signal_results,
                   published, failedAt, histVars, hubVars, pubVars, connVars, message_count>>

ReadFirst ==
    /\ reader.pc = "first"
    /\ reader' = [reader EXCEPT !.pc = "second", !.first = heap[reader.ref]]
    /\ UNCHANGED <<anVars, engVars, feedVars, storeVars, failedAt, histVars, hubVars, pubVars,
                   connVars, message_count>>

(* the second read; the with block of a locked route ends *)
ReadSecond ==
    /\ reader.pc = "second"
    /\ reader' = [reader EXCEPT !.pc = "done", !.second = heap[reader.ref]]
    /\ lock' = IF Locked(reader.route) THEN "free" ELSE lock
    /\ UNCHANGED <<anVars, engVars, feedVars, heap, analysis_results, signal_results,
                   published, failedAt, histVars, hubVars, pubVars, connVars, message_count>>

(* the response is sent *)
ReadEnd ==
    /\ reader.pc = "done"
    /\ reader' = IdleReader
    /\ UNCHANGED <<anVars, engVars, feedVars, storeVars, failedAt, histVars, hubVars, pubVars,
                   connVars, message_count>>

(* data['feeds'] of one symbol *)
SnapshotMessages == {<<<<"X", v>>>> : v \in {OrdinaryValue, HeavyValue}}

----------------------------------------------------------------------------
(* Long streams: the windows near their capacity *)

(* the i-th tick of a stream whose quantities differ from tick to tick *)
StreamTick(i) ==
    MakeTick(400 + i, 600, BasePrice, 100 + i, 5 + (i % 3), 50 + (i % 3), 1000 + i,
             BasePrice + 10)

(* The analyzer after the first n ticks of the stream went through         *)
(* analyze_tick                                                            *)
RECURSIVE AfterStream(_, _)
AfterStream(symbol, n) ==
    IF n = 0 THEN FreshAnalyzer
    ELSE analyze_tick(AfterStream(symbol, n - 1), symbol, StreamTick(n)).an

(* the deque q after append(first), append(first + 1), ..., append(last):  *)
(* the newest maxlen of all the items                                      *)
PushRun(q, first, last, maxlen) ==
    LET all == q \o [i \in 1..(last - first + 1) |-> first + i - 1]
    IN  IF Len(all) <= maxlen THEN all
        ELSE SubSeq(all, Len(all) - maxlen + 1, Len(all))

(* ... and after calculate_volume_spike(symbol, 200 + i) for i = 1..n     *)
AfterSpikeCalls(symbol, n) ==
    [AfterStream(symbol, WindowPrimeTicks) EXCEPT
        !.volume_history = Put(@, symbol, PushRun(Get(@, symbol, <<>>), 201, 200 + n,
                                                  VolumeWindow)),
        !.tick_count = Put(@, symbol, Get(@, symbol, 0) + n)]

(* SignalAnalyzer after calculate_volume_spike(symbol, 100 + i) for        *)
(* i = 1..n                                                                *)
AfterVolumes(symbol, n) ==
    [FreshSignalAnalyzer EXCEPT
        !.volume_history = Put(@, symbol, PushRun(<<>>, 101, 100 + n, VolumeWindow)),
        !.tick_count = Put(@, symbol, n)]

(* SignalAnalyzer.calculate_volume_spike(symbol, current_volume) *)
CalculateVolumeSpikeGraded(symbol, current_volume) ==
    /\ nTicks < MaxTicks
    /\ LET window == DequePush(Get(lenient.volume_history, symbol, <<>>), current_volume,
                               VolumeWindow)
       IN  /\ lenient' = GradedPushVolume(lenient, symbol, current_volume)
           /\ lastCall' = [op |-> "calculate_volume_spike", engine |-> "graded",
                           symbol |-> symbol,
                           result |-> GradedVolumeSpikeOf(window, current_volume)]
    /\ nTicks' = nTicks + 1
    /\ UNCHANGED <<strong, detector, extVars, hubVars, pubVars, connVars, message_count>>

----------------------------------------------------------------------------
(* Calls of the graded engine's signal checks *)

(* Ticks with zero to five of the buy conditions: the order flow at, just  *)
(* above (rounding to 0.5) and well above one half, the ask at or above    *)
(* the last price, a heavy or an ordinary quantity, delta and open         *)
(* interest above or at those of a quiet tick.                             *)
GradedTicks(ltp) ==
    {QuietTick(ltp), HotTick(ltp), HotTickAskAbove(ltp), HotTickWeakGreeks(ltp),
     SparseTick(ltp),
     MakeTick(900, 100, ltp, 100, 5, 50, 1000, ltp + 10),
     MakeTick(900, 100, ltp, 100, 5, 50, 1000, ltp),
     MakeTick(900, 100, ltp, 100, 5, 75, 1000, ltp),
     MakeTick(300, 100, ltp, 100, 5, 75, 2000, ltp),
     MakeTick(30001, 10000, ltp, 100, 5, 75, 2000, ltp)}

(* The graded analyzer after n quiet ticks at the base price went through  *)
(* analyze_tick                                                            *)
RECURSIVE AfterGradedQuietTicks(_, _)
AfterGradedQuietTicks(symbol, n) ==
    IF n = 0 THEN FreshSignalAnalyzer
    ELSE graded_analyze_tick(AfterGradedQuietTicks(symbol, n - 1), symbol,
                             QuietTick(BasePrice)).an

CheckBuySignal(symbol, tick_data) ==
    /\ MayCall
    /\ \E r \in {check_buy_signal(lenient, symbol, tick_data)} :
           /\ lenient' = r.an
           /\ lastCall' = [op |-> "check_buy_signal", engine |-> "graded",
                           symbol |-> symbol, conds |-> r.conds, signals |-> r.signals,
                           buy |-> r.ret, result |-> NoSignal]
    /\ nTicks' = nTicks + 1
    /\ UNCHANGED <<strong, detector, extVars, hubVars, pubVars, connVars, message_count>>

GradedAnalyzeTick(symbol, tick_data) ==
    /\ MayCall
    /\ \E r \in {graded_analyze_tick(lenient, symbol, tick_data)} :
           /\ lenient' = r.an
           /\ lastCall' = [op |-> "graded_analyze_tick", engine |-> "graded",
                           symbol |-> symbol, conds |-> r.conds, signals |-> r.signals,
                           buy |-> r.ret.signals.buy, result |-> r.ret]
    /\ nTicks' = nTicks + 1
    /\ UNCHANGED <<strong, detector, extVars, hubVars, pubVars, connVars, message_count>>

----------------------------------------------------------------------------
(* Specifications *)

vars == <<svc, running, pc, retry_count, upstox_connected, ws, loop_stopping,
          message_count, attempts, consecFails, credsRejected, clients, queue,
          cstate, cchan, drained, subAt, pubPc, pubIdx, pubEvent, regAtStart, got,
          strong, lastCall, nTicks, lenient, detector, feed, feedIdx, outcome, heap,
          analysis_results, signal_results, lock, published, reader, failedAt,
          lastSent, subSent, lastRecv, waited, stamped>>

InitHubState ==
    /\ clients = [ch \in Channels |-> <<>>]
    /\ queue = [c \in Clients |-> <<>>]
    /\ cstate = [c \in Clients |-> "idle"]
    /\ cchan = [c \in Clients |-> "main"]
    /\ drained = [c \in Clients |-> FALSE]
    /\ subAt = [c \in Clients |-> 0]
    /\ pubPc = "idle"
    /\ pubIdx = 1
    /\ pubEvent = 0
    /\ regAtStart = {}
    /\ got = [c \in Clients |-> 0]

(* GlobalState.__init__: no result stored; no message, no request under way *)
InitResults ==
    /\ feed = <<>>
    /\ feedIdx = 1
    /\ outcome = NoOutcome
    /\ heap = <<>>
    /\ analysis_results = <<>>
    /\ signal_results = <<>>
    /\ lock = "free"
    /\ published = {}
    /\ reader = IdleReader
    /\ failedAt = [c \in Clients |-> 0 - 1]
    /\ lastSent = [c \in Clients |-> IF cstate[c] = "idle" THEN NothingSent ELSE ConnectionEvent]
    /\ subSent = (IF pc = "stream" THEN 1 ELSE 0)
    /\ lastRecv = "none"
    /\ waited = 0
    /\ stamped = <<>>

InitEngines ==
    /\ lenient = FreshSignalAnalyzer
    /\ detector = FreshDetector

InitAnalyzer ==
    /\ strong = FreshAnalyzer
    /\ lastCall = NoCall
    /\ nTicks = 0
    /\ InitEngines
    /\ InitResults

(* The services as constructed: GlobalState() and the service's __init__ *)
Init ==
    /\ svc \in Services
    /\ running = FALSE
    /\ pc = "init"
    /\ retry_count = 0
    /\ upstox_connected = FALSE
    /\ ws = "none"
    /\ loop_stopping = FALSE
    /\ message_count = 0
    /\ attempts = 0
    /\ consecFails = 0
    /\ credsRejected = FALSE
    /\ InitHubState
    /\ InitAnalyzer

(* The connector with no SSE client connected *)
Next ==
    \/ Start
    \/ LoopEnter
    \/ LoopExit
    \/ AuthorizeOk
    \/ \E reason \in {"invalid_credentials", "network"} : AuthorizeFail(reason)
    \/ ConnectOk
    \/ ConnectFail
    \/ SubscribeOk
    \/ SubscribeFail
    \/ RecvTick(MaxMessages)
    \/ RecvUndecodable
    \/ BroadcastMainEnd
    \/ BroadcastSignalEnd
    \/ RecvTimeoutPingOk
    \/ RecvTimeoutPingFail
    \/ RecvClosed
    \/ RecvError
    \/ InnerExit
    \/ BackoffOver
    \/ Stop
    \/ LoopHalt

Spec == Init /\ [][Next]_vars

(* The hub while the first session of the connector is streaming *)
InitStreaming ==
    /\ svc \in Services
    /\ running = TRUE
    /\ pc = "stream"
    /\ retry_count = 0
    /\ upstox_connected = TRUE
    /\ ws = "open"
    /\ loop_stopping = FALSE
    /\ message_count = 0
    /\ attempts = 1
    /\ consecFails = 0
    /\ credsRejected = FALSE
    /\ InitHubState
    /\ InitAnalyzer

NextHub ==
    \/ \E c \in HubClients, ch \in Channels : Subscribe(c, ch)
    \/ \E c \in HubClients : PopLeft(c)
    \/ \E c \in HubClients : Unsubscribe(c)
    \/ RecvTick(HubMessages)
    \/ \E ch \in Channels : BroadcastStep(ch)
    \/ BroadcastMainEnd
    \/ BroadcastSignalEnd

SpecHub == InitStreaming /\ [][NextHub]_vars

(* One subscriber and a long run of messages *)
NextQueue ==
    \/ \E c \in QueueClients, ch \in Channels : Subscribe(c, ch)
    \/ \E c \in QueueClients : PopLeft(c)
    \/ \E c \in QueueClients : Unsubscribe(c)
    \/ RecvTick(QueueMessages)
    \/ \E ch \in Channels : BroadcastStep(ch)
    \/ BroadcastMainEnd
    \/ BroadcastSignalEnd

SpecQueue == InitStreaming /\ [][NextQueue]_vars

(* Subscribers that registered before the first message and never drain   *)
(* their queues: every generator has yielded its 'connection' event and    *)
(* takes no further step.                                                  *)
ListOf(S) == SelectSeq(<<"c1", "c2", "c3">>, LAMBDA c : c \in S)

InitStalled ==
    /\ svc \in Services
    /\ running = TRUE
    /\ pc = "stream"
    /\ retry_count = 0
    /\ upstox_connected = TRUE
    /\ ws = "open"
    /\ loop_stopping = FALSE
    /\ message_count = 0
    /\ attempts = 1
    /\ consecFails = 0
    /\ credsRejected = FALSE
    /\ \E on \in [Clients -> {"none"} \cup (IF svc = "app" THEN Channels ELSE {"main"})] :
          /\ clients = [ch \in Channels |-> ListOf({c \in Clients : on[c] = ch})]
          /\ cstate = [c \in Clients |-> IF on[c] = "none" THEN "idle" ELSE "active"]
          /\ cchan = [c \in Clients |-> IF on[c] = "none" THEN "main" ELSE on[c]]
    /\ queue = [c \in Clients |-> <<>>]
    /\ drained = [c \in Clients |-> FALSE]
    /\ subAt = [c \in Clients |-> 0]
    /\ pubPc = "idle"
    /\ pubIdx = 1
    /\ pubEvent = 0
    /\ regAtStart = {}
    /\ got = [c \in Clients |-> 0]
    /\ InitAnalyzer

NextStall ==
    \/ RecvTick(QueueMessages)
    \/ \E ch \in Channels : BroadcastStep(ch)
    \/ BroadcastMainEnd
    \/ BroadcastSignalEnd

(* The connector's thread runs on its own: a step of it that can be taken  *)
(* is taken, and the feed keeps delivering messages.                       *)
SpecStall == InitStalled /\ [][NextStall]_vars /\ WF_vars(NextStall)

(* The graded analyzer, fresh or after PrimeTicks quiet ticks, called      *)
(* through analyze_tick or check_buy_signal directly.                      *)
InitGraded ==
    /\ svc = "app"
    /\ running = FALSE
    /\ pc = "init"
    /\ retry_count = 0
    /\ upstox_connected = FALSE
    /\ ws = "none"
    /\ loop_stopping = FALSE
    /\ message_count = 0
    /\ attempts = 0
    /\ consecFails = 0
    /\ credsRejected = FALSE
    /\ InitHubState
    /\ InitResults
    /\ strong = FreshAnalyzer
    /\ detector = FreshDetector
    /\ lastCall = NoCall
    /\ \/ lenient = FreshSignalAnalyzer /\ nTicks = 0
       \/ \E symbol \in Symbols :
             lenient = AfterGradedQuietTicks(symbol, PrimeTicks) /\ nTicks = PrimeTicks

NextGraded ==
    \/ \E symbol \in Symbols, ltp \in {BasePrice, BasePrice + PriceStep} :
          \E tick_data \in GradedTicks(ltp) : CheckBuySignal(symbol, tick_data)
    \/ \E symbol \in Symbols, ltp \in {BasePrice, BasePrice + PriceStep} :
          \E tick_data \in GradedTicks(ltp) : GradedAnalyzeTick(symbol, tick_data)

SpecGraded == InitGraded /\ [][NextGraded]_vars

(* a tick of a falling market: asks outweigh bids, a heavy quantity trades *)
(* at the top ask and the open interest is above a quiet tick's            *)
SellOffTick(ltp) == MakeTick(100, 900, ltp, 5000, 5, 50, 2000, ltp)

(* The graded analyzer through analyze_tick on quiet, hot and sell-off     *)
(* ticks at the base price or one step above it                            *)
NextSellOff ==
    \E symbol \in Symbols, ltp \in {BasePrice, BasePrice + PriceStep} :
        \E tick_data \in {QuietTick(ltp), HotTick(ltp), SellOffTick(ltp)} :
            GradedAnalyzeTick(symbol, tick_data)

SpecSellOff == InitGraded /\ [][NextSellOff]_vars

(* Both engines side by side, fresh or after PrimeTicks quiet ticks each *)
InitSignals ==
    /\ svc = "app"
    /\ running = FALSE
    /\ pc = "init"
    /\ retry_count = 0
    /\ upstox_connected = FALSE
    /\ ws = "none"
    /\ loop_stopping = FALSE
    /\ message_count = 0
    /\ attempts = 0
    /\ consecFails = 0
    /\ credsRejected = FALSE
    /\ InitHubState
    /\ InitResults
    /\ detector = FreshDetector
    /\ lastCall = NoCall
    /\ \/ strong = FreshAnalyzer /\ lenient = FreshSignalAnalyzer /\ nTicks = 0
       \/ \E symbol \in Symbols :
             /\ strong = AfterQuietTicks(symbol, PrimeTicks)
             /\ lenient = AfterGradedQuietTicks(symbol, PrimeTicks)
             /\ nTicks = PrimeTicks

NextSignals ==
    \/ \E symbol \in Symbols : \E ltp \in Prices(symbol) :
          \E tick_data \in {QuietTick(ltp), HotTick(ltp), BlazingTick(ltp)} :
              AnalyzeTick(symbol, tick_data)
    \/ \E symbol \in Symbols : \E ltp \in Prices(symbol) :
          \E tick_data \in {QuietTick(ltp), HotTick(ltp), BlazingTick(ltp)} :
              CheckStrongBuySignal(symbol, tick_data)
    \/ \E symbol \in Symbols, ltp \in {BasePrice} :
          \E tick_data \in {QuietTick(ltp), HotTick(ltp), HotTickAskAbove(ltp),
                             MakeTick(900, 100, ltp, 100, 5, 75, 1000, ltp)} :
              CheckBuySignal(symbol, tick_data)

SpecSignals == InitSignals /\ [][NextSignals]_vars

(* Both engines fed through analyze_tick only *)
NextTicks ==
    \/ \E symbol \in Symbols : \E ltp \in Prices(symbol) :
          \E tick_data \in Ticks(ltp) : AnalyzeTick(symbol, tick_data)
    \/ \E symbol \in Symbols, ltp \in {BasePrice, BasePrice + PriceStep} :
          \E tick_data \in Ticks(ltp) : GradedAnalyzeTick(symbol, tick_data)

SpecTicks == InitSignals /\ [][NextTicks]_vars

(* The strict analyzer of app.py, fresh or after PrimeTicks quiet ticks,   *)
(* called through analyze_tick (as broadcast_data does) or directly.       *)
InitStrong ==
    /\ svc = "app"
    /\ running = FALSE
    /\ pc = "init"
    /\ retry_count = 0
    /\ upstox_connected = FALSE
    /\ ws = "none"
    /\ loop_stopping = FALSE
    /\ message_count = 0
    /\ attempts = 0
    /\ consecFails = 0
    /\ credsRejected = FALSE
    /\ InitHubState
    /\ InitEngines
    /\ InitResults
    /\ lastCall = NoCall
    /\ \/ strong = FreshAnalyzer /\ nTicks = 0
       \/ \E symbol \in Symbols :
             strong = AfterQuietTicks(symbol, PrimeTicks) /\ nTicks = PrimeTicks

NextStrong ==
    \/ \E symbol \in Symbols : \E ltp \in Prices(symbol) : \E tick_data \in Ticks(ltp) :
          AnalyzeTick(symbol, tick_data)
    \/ \E symbol \in Symbols : \E ltp \in Prices(symbol) : \E tick_data \in Ticks(ltp) :
          CheckStrongBuySignal(symbol, tick_data)

SpecStrong == InitStrong /\ [][NextStrong]_vars

(* A fresh strict analyzer on a stream in which every tick trades one step *)
(* above the tick before it, through analyze_tick                          *)
NextRising ==
    \E symbol \in Symbols :
        \E ltp \in {IF nTicks = 0 THEN BasePrice ELSE LastPrice(symbol) + PriceStep} :
            \E tick_data \in Ticks(ltp) : AnalyzeTick(symbol, tick_data)

SpecRising == Init /\ [][NextRising]_vars

(* The first ticks of a symbol on a fresh strict analyzer, through         *)
(* analyze_tick or check_strong_buy_signal: a quiet, a hot and a sparse    *)
(* tick, and a hot tick whose open interest is that of a quiet one         *)
EarlyTicks(ltp) ==
    {QuietTick(ltp), HotTick(ltp), SparseTick(ltp), SpikeTick(ltp, 1000, ltp)}

NextEarly ==
    \/ \E symbol \in Symbols : \E ltp \in Prices(symbol) : \E tick_data \in EarlyTicks(ltp) :
          AnalyzeTick(symbol, tick_data)
    \/ \E symbol \in Symbols : \E ltp \in Prices(symbol) : \E tick_data \in EarlyTicks(ltp) :
          CheckStrongBuySignal(symbol, tick_data)

SpecEarly == Init /\ [][NextEarly]_vars

(* The strict analyzer on the priming stream and the spike tick *)
NextScenario ==
    \/ \E symbol \in Symbols, viaAnalyze \in BOOLEAN :
          \E book \in StreamBooks(symbol), ltq \in {500, 1000, 1500} :
              PrimeCall(symbol, PrimingTick(book[1], book[2], ltq), viaAnalyze)
    \/ \E symbol \in Symbols, viaAnalyze \in BOOLEAN :
          \E ltp \in Prices(symbol), oi \in {1101, 1200} :
              \E askP \in {ltp, ltp - 10} :
                  SpikeCall(symbol, SpikeTick(ltp, oi, askP), viaAnalyze)
    \/ \E symbol \in Symbols : CalculateVolumeSpike(symbol, 5000)

SpecScenario == Init /\ [][NextScenario]_vars

(* The coercions and the order-flow indicator on every raw field *)
NextCoerce ==
    \/ \E engine \in Engines, value \in RawValues : ToNum(engine, value)
    \/ \E engine \in Engines, tbq \in RawQuantities, tsq \in RawQuantities :
          CalculateOfi(engine, [tbq |-> tbq, tsq |-> tsq])
    \/ \E engine \in Engines, tbq \in RawQuantities :
          CalculateOfi(engine, [tbq |-> tbq])

SpecCoerce == Init /\ [][NextCoerce]_vars

(* calculate_momentum of either engine on a stream of prices of one symbol *)
NextMomentum ==
    \/ \E symbol \in Symbols :
          \E value \in {Num(0), Num(BasePrice), Num(BasePrice + PriceStep),
                        Text, NaNValue, InfValue, NegInfValue} :
              CalculateMomentum(symbol, value)
    \/ \E symbol \in Symbols :
          \E value \in {Num(0), Num(BasePrice), Num(BasePrice + PriceStep), Text} :
              CalculateMomentumStrict(symbol, value)

SpecMomentum == Init /\ [][NextMomentum]_vars

(* The detector on a stream of feed values of one symbol *)
NextDetector ==
    \E symbol \in Symbols, feed_value \in FeedValues : Analyze(symbol, feed_value)

SpecDetector == Init /\ [][NextDetector]_vars

(* BigMoveDetector.analyze on the ticks of two symbols *)
NextAlerts ==
    \E symbol \in FeedSymbols, feed_value \in AlertFeedValues : Analyze(symbol, feed_value)

SpecAlerts == Init /\ [][NextAlerts]_vars

(* Both analyzers, fresh or with the windows of one symbol two            *)
(* insertions short of their capacity                                      *)
InitWindows ==
    /\ svc = "app"
    /\ running = FALSE
    /\ pc = "init"
    /\ retry_count = 0
    /\ upstox_connected = FALSE
    /\ ws = "none"
    /\ loop_stopping = FALSE
    /\ message_count = 0
    /\ attempts = 0
    /\ consecFails = 0
    /\ credsRejected = FALSE
    /\ InitHubState
    /\ InitResults
    /\ detector = FreshDetector
    /\ lastCall = NoCall
    /\ nTicks = 0
    /\ \E symbol \in Symbols :
          \/ strong = FreshAnalyzer /\ lenient = FreshSignalAnalyzer
          \/ /\ strong = AfterSpikeCalls(symbol, VolumePrimeCalls)
             /\ lenient = AfterVolumes(symbol, 2 * WindowPrimeTicks + VolumePrimeCalls)

NextWindows ==
    \/ \E symbol \in Symbols :
          \E tick_data \in {HotTick(BasePrice + PriceStep), SparseTick(BasePrice)} :
              AnalyzeTick(symbol, tick_data)
    \/ \E symbol \in Symbols :
          \E tick_data \in {HotTick(BasePrice + PriceStep), SparseTick(BasePrice)} :
              CheckStrongBuySignal(symbol, tick_data)
    \/ \E symbol \in Symbols : \E value \in {Num(BasePrice), Num(BasePrice + PriceStep)} :
          CalculateMomentum(symbol, value)
    \/ \E symbol \in Symbols : \E current_volume \in {100, 5000} :
          CalculateVolumeSpikeGraded(symbol, current_volume)

SpecWindows == InitWindows /\ [][NextWindows]_vars

(* The pipeline from a received message with feeds to the client queues,  *)
(* with one SSE client                                                     *)
NextFeed ==
    \/ \E data \in FeedMessages : RecvFeed(FeedLimit, data)
    \/ AnalyzeBigMove
    \/ AnalyzeSignal
    \/ FeedDone
    \/ \E ch \in Channels : BroadcastStep(ch)
    \/ BroadcastMainEnd
    \/ BroadcastSignalEnd
    \/ \E c \in QueueClients, ch \in Channels : Subscribe(c, ch)
    \/ \E c \in QueueClients : PopLeft(c)

SpecFeed == InitStreaming /\ [][NextFeed]_vars

(* The same pipeline with no SSE client connected: messages with the ticks *)
(* of two symbols go through both analyses and are counted                 *)
NextSymbols ==
    \/ \E data \in FeedMessages : RecvFeed(FeedLimit, data)
    \/ AnalyzeBigMove
    \/ AnalyzeSignal
    \/ FeedDone
    \/ BroadcastMainEnd
    \/ BroadcastSignalEnd

SpecSymbols == InitStreaming /\ [][NextSymbols]_vars

(* The hub with clients whose connections break *)
NextSink ==
    \/ \E c \in HubClients, ch \in Channels : Subscribe(c, ch)
    \/ \E c \in HubClients : PopLeft(c)
    \/ \E c \in HubClients : SinkFail(c)
    \/ \E c \in HubClients : WriteFails(c)
    \/ RecvTick(HubMessages)
    \/ \E ch \in Channels : BroadcastStep(ch)
    \/ BroadcastMainEnd
    \/ BroadcastSignalEnd

SpecSink == InitStreaming /\ [][NextSink]_vars

(* The producer thread and a request thread *)
NextSnapshot ==
    \/ \E data \in SnapshotMessages : RecvFeed(FeedLimit, data)
    \/ AnalyzeBigMove
    \/ AnalyzeSignal
    \/ FeedDone
    \/ BroadcastMainEnd
    \/ BroadcastSignalEnd
    \/ \E route \in Routes, symbol \in FeedSymbols : ReadBegin(route, symbol)
    \/ ReadFirst
    \/ ReadSecond
    \/ ReadEnd

SpecSnapshot == InitStreaming /\ [][NextSnapshot]_vars

----------------------------------------------------------------------------
(* Properties of the broadcast hub *)

(* Messages whose loop over the list ch has run to its end *)
DoneFor(ch) ==
    IF pubPc = "idle" \/ (ch = "main" /\ pubPc = "signal")
    THEN message_count ELSE message_count - 1

(* Publishes that reached subscriber c since it registered *)
Received(c) ==
    DoneFor(cchan[c]) - subAt[c]
        + (IF pubPc = cchan[c] /\ got[c] > 0 THEN 1 ELSE 0)

(* C1: a subscriber queue that has not been drained since it registered    *)
(* holds, after n publishes, exactly the min(n, 100) most recently         *)
(* published messages in publish order (message ids are 0-based, so after  *)
(* 150 publishes from the start it holds ids 50..149, the 51st to 150th).  *)
C1_QueueHoldsMostRecent ==
    \A c \in Clients :
        (cstate[c] = "active" /\ ~drained[c]) =>
            LET n == Received(c)
                m == Min(n, QueueMaxLen)
            IN  queue[c] = [i \in 1..m |-> subAt[c] + n - m + i - 1]

C1_Witness ==
    \E c \in Clients :
        /\ cstate[c] = "active" /\ ~drained[c] /\ subAt[c] = 0
        /\ pubPc = "idle" /\ message_count = 150
        /\ Len(queue[c]) = QueueMaxLen
        /\ queue[c][1] = 50 /\ queue[c][QueueMaxLen] = 149

(* C2: a disconnect removes exactly the departing subscriber's queue, so   *)
(* at all times the registered queues are those of the connected           *)
(* subscribers: every connected one is in its list, no departed one is.    *)
C2_OnlyDepartedRemoved ==
    \A c \in Clients :
        /\ cstate[c] = "active" => c \in Range(clients[cchan[c]])
        /\ cstate[c] = "gone" => \A ch \in Channels : c \notin Range(clients[ch])

(* C3: when the loop of a publish over a client list ends, every queue     *)
(* that was in the list when the loop started and is still in it has had   *)
(* the message appended exactly once.                                      *)
C3_PublishReachesAllRegistered ==
    [][\A ch \in Channels :
          (pubPc = ch /\ pubPc' # ch) =>
              \A c \in regAtStart \cap Range(clients[ch]) : got[c] = 1]_vars

----------------------------------------------------------------------------
(* Properties of the feed connector *)

(* C4: once five consecutive connection attempts have failed, the flag     *)
(* reads disconnected, the connector is on its way out of the run loop or  *)
(* out of it for good, no further attempt is started and no further        *)
(* message is processed.                                                   *)
C4_FiveFailuresStop ==
    [][/\ consecFails' >= max_retries =>
             (~upstox_connected' /\ pc' \in {"loop", "backoff", "done"})
       /\ consecFails >= max_retries =>
             (attempts' = attempts /\ message_count' = message_count)
       /\ (consecFails >= max_retries /\ pc = "done") => pc' = "done"]_vars

C4_Witness ==
    /\ consecFails = max_retries
    /\ attempts = max_retries
    /\ pc = "done"
    /\ ~upstox_connected

(* C5: as long as no message has been received, the number of connection   *)
(* attempts stays within max_retries.                                      *)
C5_AttemptsBounded ==
    message_count = 0 => attempts <= max_retries

(* C6: right after a connection attempt has succeeded the retry counter is *)
(* 0 and the flag reads connected.                                         *)
C6_SuccessResetsRetries ==
    pc = "subscribe" => (retry_count = 0 /\ upstox_connected)

(* C7: with no stop requested, the connector is never in its receive loop  *)
(* on a connection that has notified its closing.                          *)
C7_ClosedLeavesReceiveLoop ==
    (running /\ ws = "closed") => pc # "stream"

(* C8: after the authorize call was refused for invalid credentials no     *)
(* further authorization or connection attempt is started.                 *)
C8_BadCredentialsNotRetried ==
    [][credsRejected => attempts' = attempts]_vars

----------------------------------------------------------------------------
(* Properties of the strict analyzer *)

(* C9: check_strong_buy_signal returns a STRONG_BUY signal if and only if  *)
(* at least 5 of its 7 conditions are satisfied on the tick, and the       *)
(* signal's signal_count is the number of conditions satisfied.            *)
C9_StrongBuyIffQuorum ==
    lastCall.op # "none" =>
        /\ (lastCall.buy # NoSignal) <=> (Cardinality(lastCall.conds) >= 5)
        /\ lastCall.buy # NoSignal =>
              /\ lastCall.buy.action = "STRONG_BUY"
              /\ lastCall.buy.signal_count = Cardinality(lastCall.conds)

C9_Witness ==
    /\ lastCall.op = "check_strong_buy_signal"
    /\ Cardinality(lastCall.conds) = 5
    /\ lastCall.buy # NoSignal
    /\ lastCall.buy.signal_count = 5

(* C10: every result of analyze_tick has no sell signal, and the buy       *)
(* signal it carries, if any, is a STRONG_BUY.                             *)
C10_NoSellOnlyStrongBuy ==
    lastCall.op = "analyze_tick" =>
        /\ lastCall.result.signals.sell = NoSignal
        /\ lastCall.result.signals.buy.action \in {"NONE", "STRONG_BUY"}

C10_Witness ==
    /\ lastCall.op = "analyze_tick"
    /\ lastCall.result.signals.buy # NoSignal
    /\ lastCall.result.signals.buy.action = "STRONG_BUY"
    /\ lastCall.result.signals.sell = NoSignal

(* C11: on a volume window primed with 10 prior values averaging 1000, the *)
(* tick with tbq 900, tsq 100, volume 5000, delta 0.75 (up from 0.6), gamma *)
(* 0.0025 (up from 0.001), open interest more than 10% above its average    *)
(* and last price at or above the top ask makes the strict engine return a  *)
(* STRONG_BUY with signal_count >= 5 and confidence > 0.                    *)
C11_SpikeTickIsStrongBuy ==
    lastCall.op = "spike_tick" =>
        /\ lastCall.buy # NoSignal
        /\ lastCall.buy.action = "STRONG_BUY"
        /\ lastCall.buy.signal_count >= 5
        /\ lastCall.buy.confidence > 0

C11_Witness ==
    /\ lastCall.op = "spike_tick"
    /\ lastCall.buy # NoSignal
    /\ lastCall.buy.action = "STRONG_BUY"
    /\ lastCall.buy.signal_count = 5
    /\ lastCall.conds = {1, 2, 4, 5, 6}

(* C12: calculate_volume_spike called with volume 5000 on a window of 10   *)
(* prior values averaging 1000 reports ratio 5.0 (the current volume over  *)
(* the mean of the prior values) and the label EXTREME_SPIKE.              *)
C12_RatioOverPriorMean ==
    (/\ lastCall.op = "calculate_volume_spike"
     /\ Len(lastCall.prior) = 10
     /\ SumSeq(lastCall.prior) = 10000
     /\ lastCall.current = 5000) =>
        /\ lastCall.result.ratio = 500
        /\ lastCall.result.signal = "EXTREME_SPIKE"

----------------------------------------------------------------------------
(* Properties of the indicators *)

(* C14: for a tick whose tbq and tsq are both 0, calculate_ofi of the      *)
(* graded and of the strict policy returns value 0, strength 0 and the     *)
(* neutral/weak label, and no division by zero is raised.                  *)
C14_ZeroBookIsNeutral ==
    (lastCall.op = "calculate_ofi" /\ lastCall.tbq = 0 /\ lastCall.tsq = 0) =>
        \E label \in {"NEUTRAL", "WEAK"} :
            lastCall.result = [value |-> 0, signal |-> label, strength |-> 0]

C14_Witness ==
    /\ lastCall.op = "calculate_ofi"
    /\ lastCall.engine = "strict"
    /\ lastCall.arg = [tbq |-> Text]
    /\ lastCall.tbq = 0 /\ lastCall.tsq = 0
    /\ lastCall.result = [value |-> 0, signal |-> "NEUTRAL", strength |-> 0]

(* C15: calculate_momentum returns the neutral/weak label with value 0     *)
(* while fewer than 2 prices are recorded for the symbol, and its value is *)
(* a finite number for every sequence of prices.                           *)
C15_MomentumFinite ==
    lastCall.op = "calculate_momentum" =>
        /\ lastCall.recorded < 2 =>
              (lastCall.result.value = Fin(0)
               /\ lastCall.result.signal \in {"NEUTRAL", "WEAK"})
        /\ IsFinite(lastCall.result.value)

(* C16: every result of BigMoveDetector.analyze has a score in [0,100]     *)
(* that is the sum of a volume factor in [0,35], a price-range factor in   *)
(* [0,30], an order-book factor in [0,20] and a Greeks factor in [0,15].   *)
C16_ScoreWithinRange ==
    (lastCall.op = "analyze" /\ lastCall.result # NoResult) =>
        /\ lastCall.result.score \in 0..100
        /\ lastCall.parts[1] \in 0..35
        /\ lastCall.parts[2] \in 0..30
        /\ lastCall.parts[3] \in 0..20
        /\ lastCall.parts[4] \in 0..15
        /\ lastCall.result.score
              = lastCall.parts[1] + lastCall.parts[2] + lastCall.parts[3]
                    + lastCall.parts[4]

C16_Witness ==
    /\ lastCall.op = "analyze"
    /\ nTicks >= 2
    /\ lastCall.result # NoResult
    /\ lastCall.result.score = 100
    /\ lastCall.parts = <<35, 30, 20, 15>>

(* C17: to_num of each engine returns 0.0 for every input that is not a    *)
(* finite number: missing, empty, non-numeric, NaN, +Infinity, -Infinity.  *)
C17_CoercionGuardsNonFinite ==
    (lastCall.op = "to_num" /\ lastCall.arg.kind # "num") =>
        lastCall.result = Fin(0)


----------------------------------------------------------------------------
(* Properties of the rolling windows *)

WindowNames ==
    {"price_history", "volume_history", "delta_history", "gamma_history",
     "oi_history", "ofi_history"}

(* maxlen of each deque the analyzers create *)
Capacity(name) ==
    CASE name = "price_history" -> lookback_ticks
      [] name = "volume_history" -> VolumeWindow
      [] name \in {"delta_history", "gamma_history"} -> GreeksWindow
      [] name = "oi_history" -> OiWindow
      [] name = "ofi_history" -> OfiWindow

(* new is old after k insertions into a window of capacity cap: no longer  *)
(* than cap, the entries kept are the newest of old in their order, and    *)
(* only as many of the oldest are gone as the capacity requires            *)
Inserted(old, new, cap, k) ==
    /\ Len(new) <= cap
    /\ Len(new) = Min(Len(old) + k, cap)
    /\ SubSeq(new, 1, Len(new) - k) = SubSeq(old, Len(old) - (Len(new) - k) + 1, Len(old))

(* the call went through the strict engine, which inserts into each of    *)
(* its windows                                                             *)
StrictCall(call) == call.op \in {"analyze_tick", "check_strong_buy_signal"}

(* the call was the graded engine's method that inserts into window name   *)
GradedCall(call, name) ==
    /\ call.op = (IF name = "price_history" THEN "calculate_momentum"
                  ELSE "calculate_volume_spike")
    /\ "engine" \in DOMAIN call
    /\ call.engine = "graded"

(* C13: after every call, each window of each symbol holds at most its     *)
(* capacity (price lookback_ticks, volume 60, delta, gamma, open interest  *)
(* and OFI 5), and what the call inserted displaced exactly the oldest     *)
(* entries of a full window, the others keeping their order.               *)
C13_WindowsEvictOldest ==
    [][nTicks' = nTicks + 1 =>
        /\ \A symbol \in Symbols, name \in WindowNames :
              \E k \in 0..2 :
                  /\ StrictCall(lastCall') => k >= 1
                  /\ Inserted(Get(strong[name], symbol, <<>>),
                              Get(strong'[name], symbol, <<>>), Capacity(name), k)
        /\ \A symbol \in Symbols, name \in {"price_history", "volume_history"} :
              \E k \in 0..1 :
                  /\ GradedCall(lastCall', name) => k = 1
                  /\ Inserted(Get(lenient[name], symbol, <<>>),
                              Get(lenient'[name], symbol, <<>>), Capacity(name), k)]_vars

(* a full volume window that lost the first ticks of the stream, beside a  *)
(* full price window                                                       *)
C13_Witness ==
    \E symbol \in Symbols :
        /\ symbol \in DOMAIN strong.volume_history
        /\ Len(strong.volume_history[symbol]) = VolumeWindow
        /\ Len(strong.price_history[symbol]) = lookback_ticks
        /\ strong.volume_history[symbol][1] > 100 + 1
        /\ strong.volume_history[symbol][VolumeWindow] = 5000
        /\ nTicks = MaxTicks


----------------------------------------------------------------------------
(* Properties of the analysis pipeline *)

(* C18: when the analysis of a symbol of a message has failed, the service *)
(* (app.py and app_bigmove.py alike) has, once it is done with the         *)
(* message, analyzed every other symbol of it, counted and broadcast the   *)
(* message, kept the session streaming and left the retry counter alone.   *)
C18_FailureIsolated ==
    (pubPc = "idle" /\ outcome.failed # {}) =>
        /\ outcome.analyzed = outcome.symbols
        /\ message_count = outcome.count + 1
        /\ pubEvent = outcome.count
        /\ pc = "stream"
        /\ retry_count = outcome.retries


(* C19: once a broadcast that began after a client's connection broke has  *)
(* run to its end, the client's queue is no longer in the list it          *)
(* registered in.                                                          *)
C19_FailedSinkRemoved ==
    \A c \in Clients :
        (/\ failedAt[c] >= 0
         /\ message_count > failedAt[c]
         /\ pubPc = "idle") =>
            c \notin Range(clients[cchan[c]])


(* C20: whatever a request thread has read of a stored analysis or signal  *)
(* result, interleaved with the producer in any way, is one result exactly *)
(* as the producer stored it: the previous one or the new one, never parts *)
(* of both.                                                                *)
C20_ReadsSeeWholeResults ==
    reader.pc = "done" => Snapshot(reader) \in published

(* a lock-free read that returned the previous result after the producer   *)
(* had stored a different one                                              *)
C20_Witness ==
    /\ reader.pc = "done"
    /\ reader.route = "health"
    /\ reader.ref # signal_results[reader.symbol]
    /\ Snapshot(reader) = heap[reader.ref]
    /\ heap[reader.ref] # heap[signal_results[reader.symbol]]

----------------------------------------------------------------------------
(* Properties of the event streams *)

(* The event a generator would yield next, if its queue holds one, was    *)
(* published after the event it yielded last.                             *)
NextEventIsLater(c) ==
    (cstate[c] = "active" /\ queue[c] # <<>>) => Head(queue[c]) > lastSent[c]

(* C21: the first event a subscriber's stream yields is the 'connection'   *)
(* event; every data event it yields afterwards is a published message     *)
(* (ordinal below message_count) with a higher ordinal than the one        *)
(* before, so the data events are a subsequence of the published messages  *)
(* in publish order and none is delivered twice.                           *)
C21_StreamIsOrderedSubsequence ==
    [][\A c \in Clients :
          /\ lastSent'[c] # lastSent[c] =>
                IF lastSent[c] = NothingSent
                THEN lastSent'[c] = ConnectionEvent
                ELSE /\ lastSent'[c] > lastSent[c]
                     /\ lastSent'[c] \in 0..(message_count - 1)
          /\ queue'[c] # queue[c] => NextEventIsLater(c)']_vars

C21_Witness ==
    \E c \in Clients :
        /\ cstate[c] = "active"
        /\ lastSent[c] = 2
        /\ message_count = 3

----------------------------------------------------------------------------
(* Properties of the connector's sessions *)

(* A step in which a receive on the current connection has ended *)
ReceiveEnds ==
    \/ message_count' # message_count
    \/ pubPc = "idle" /\ pubPc' = "analyze"
    \/ lastRecv' # lastRecv /\ lastRecv' # "none"

(* C22: on every connection, the first one and every reconnection, the     *)
(* subscription message is sent once and never twice, it has been sent     *)
(* whenever the connector is in its receive loop, and no receive ends on a *)
(* connection on which it has not been sent.                               *)
C22_SubscribedBeforeReceive ==
    [][/\ subSent' <= 1
       /\ pc' = "stream" => subSent' = 1
       /\ ReceiveEnds => subSent = 1]_vars

C22_Witness ==
    /\ pc = "stream"
    /\ attempts >= 2
    /\ waited > 0
    /\ subSent = 1
    /\ lastRecv = "message"

(* C23: a receive that times out while streaming, its keepalive probe      *)
(* sent, leaves the connector in the receive loop on the same open         *)
(* connection with the flag reading connected and the retry counter as it  *)
(* was; the counter goes up by one when the probe itself fails.            *)
C23_TimeoutKeepsStreaming ==
    [][/\ (lastRecv' = "timeout" /\ lastRecv # "timeout") =>
             /\ pc = "stream" /\ pc' = "stream"
             /\ ws = "open" /\ ws' = "open"
             /\ upstox_connected /\ upstox_connected'
             /\ retry_count' = retry_count
             /\ attempts' = attempts
             /\ subSent' = subSent
       /\ (lastRecv' = "ping_failed" /\ lastRecv # "ping_failed") =>
             /\ pc = "stream" /\ pc' # "stream"
             /\ retry_count' = retry_count + 1
       /\ (pc' = "stream" /\ lastRecv' = "timeout") =>
             (ws' = "open" /\ upstox_connected')]_vars

C23_Witness ==
    /\ pc = "stream"
    /\ lastRecv = "timeout"
    /\ message_count >= 1
    /\ upstox_connected
    /\ ws = "open"

(* The run of connect_and_stream is over: it returned, or its event loop   *)
(* was stopped under it.                                                   *)
RunOver == pc \in {"done", "aborted"}

(* C24: once a stop was requested (running is false) no tick is processed  *)
(* and no connection attempt is started any more, and when the run is over *)
(* the connectivity flag reads disconnected.                               *)
C24_StopEndsDisconnected ==
    [][/\ (pc # "init" /\ ~running) =>
             (message_count' = message_count /\ attempts' = attempts)
       /\ (~running' /\ RunOver') => ~upstox_connected']_vars

(* C25: the flag reads connected only while the connection of the current  *)
(* session is open and the connector is serving it (subscribing or in its  *)
(* receive loop); it reads disconnected while the connector waits to       *)
(* reconnect and after it has left its loop with the retries exhausted.    *)
C25_FlagTracksConnection ==
    /\ upstox_connected => (ws = "open" /\ pc \in {"subscribe", "stream"})
    /\ pc = "backoff" => ~upstox_connected
    /\ (pc = "done" /\ retry_count >= max_retries) => ~upstox_connected

(* C26: with any number of registered subscribers that never drain their   *)
(* queues, every publish that has started runs to its end, the connector   *)
(* goes on to receive and publish every further message, and no queue ever *)
(* holds more than 100 events.                                             *)
C26_PublishNeverStalls ==
    /\ [](\A c \in Clients : Len(queue[c]) <= QueueMaxLen)
    /\ [](pubPc # "idle" => <>(pubPc = "idle"))
    /\ <>(message_count = QueueMessages /\ pubPc = "idle")

C26_Witness ==
    /\ \A c \in Clients : cstate[c] = "active" /\ Len(queue[c]) = QueueMaxLen
    /\ message_count = QueueMessages
    /\ pubPc = "idle"

(* C29: the handler of the k-th failure (k the retry counter it has just   *)
(* incremented) sleeps min(5 * k, 30) seconds when k < max_retries, and    *)
(* does not sleep at all when k has reached max_retries.                   *)
C29_BackoffSchedule ==
    [][retry_count' = retry_count + 1 =>
          IF retry_count' < max_retries
          THEN pc' = "backoff" /\ waited' = Min(5 * retry_count', 30)
          ELSE pc' # "backoff" /\ waited' = 0]_vars

----------------------------------------------------------------------------
(* Properties of the graded analyzer *)

(* the last call went through the graded engine's check_buy_signal *)
BuyChecked == lastCall.op \in {"check_buy_signal", "graded_analyze_tick"}

(* C27: check_buy_signal returns a BUY signal if and only if at least 3 of *)
(* its 5 conditions hold on the tick, and the signal_count of the signal   *)
(* is the number of the descriptions in its signals list (which is the     *)
(* number of conditions that hold).                                        *)
C27_BuyIffThreeOfFive ==
    BuyChecked =>
        /\ lastCall.buy.action = "BUY" <=> Cardinality(lastCall.conds) >= 3
        /\ lastCall.buy.action = "BUY" =>
              /\ lastCall.buy.signal_count = Len(lastCall.buy.signals)
              /\ lastCall.buy.signal_count = Cardinality(lastCall.conds)

C27_Witness ==
    /\ lastCall.op = "check_buy_signal"
    /\ lastCall.buy.action = "BUY"
    /\ lastCall.conds = {2, 4, 5}
    /\ lastCall.buy.signal_count = 3

(* C28: the confidence of every signal either engine returns lies in       *)
(* [0, 1] (0..100 hundredths): the strict engine's is its accumulated      *)
(* score over 100 (the score counted in tenths of a point), or 1 when the  *)
(* score exceeds 100; the graded engine's is signal_count / 5 with         *)
(* signal_count at most 5.                                                 *)
C28_ConfidenceInUnitRange ==
    /\ (StrictCall(lastCall) /\ lastCall.buy.action = "STRONG_BUY") =>
          /\ lastCall.buy.confidence \in 0..100
          /\ lastCall.buy.confidence =
                 (IF lastCall.score > 1000 THEN 100 ELSE RoundHalfEven(lastCall.score, 10))
    /\ (lastCall.op = "check_buy_signal" /\ lastCall.buy.action = "BUY") =>
          /\ lastCall.buy.confidence \in 0..100
          /\ lastCall.buy.signal_count <= 5
          /\ lastCall.buy.confidence = 20 * lastCall.buy.signal_count

C28_Witness ==
    /\ lastCall.op = "check_strong_buy_signal"
    /\ lastCall.buy.action = "STRONG_BUY"
    /\ lastCall.score > 1000
    /\ lastCall.buy.confidence = 100

(* the windows the graded engine keeps *)
GradedWindowNames == {"price_history", "volume_history", "delta_history", "oi_history"}

(* window new holds one entry more than old, or is full as old was *)
OneMoreEntry(old, new, cap) == Len(new) = Min(Len(old) + 1, cap)

(* C30: a tick processed by analyze_tick adds exactly one entry to each of *)
(* the symbol's windows (a full window stays full), in the strict and in   *)
(* the graded analyzer, so that after n ticks each window holds            *)
(* min(n, capacity) entries.                                               *)
C30_OneEntryPerTick ==
    [][/\ (nTicks' = nTicks + 1 /\ lastCall'.op = "analyze_tick") =>
             \A name \in WindowNames :
                 OneMoreEntry(Get(strong[name], lastCall'.symbol, <<>>),
                              Get(strong'[name], lastCall'.symbol, <<>>), Capacity(name))
       /\ (nTicks' = nTicks + 1 /\ lastCall'.op = "graded_analyze_tick") =>
             \A name \in GradedWindowNames :
                 OneMoreEntry(Get(lenient[name], lastCall'.symbol, <<>>),
                              Get(lenient'[name], lastCall'.symbol, <<>>), Capacity(name))]_vars

----------------------------------------------------------------------------
(* A tick as the feed delivers it: the implied volatility is a field of    *)
(* the tick itself and the greeks block holds no iv                        *)
FeedShaped(tick_data) ==
    /\ "iv" \in DOMAIN tick_data
    /\ "optionGreeks" \in DOMAIN tick_data
    /\ "iv" \notin DOMAIN tick_data["optionGreeks"]

(* the points the implied-volatility rule gives to an iv in 1/100          *)
IvRule(iv) == IF 15 < iv /\ iv < 30 THEN 1 ELSE IF iv > 35 THEN 0 - 2 ELSE 0

(* C31: the greeks score of an analyze_tick result on a feed-shaped tick   *)
(* is the gamma and delta points plus the implied-volatility rule applied  *)
(* to the tick's own iv: +1 between 0.15 and 0.30, -2 above 0.35.          *)
C31_IvRuleUsesTickIv ==
    (lastCall.op = "analyze_tick" /\ "tick" \in DOMAIN lastCall
        /\ FeedShaped(lastCall.tick))
    => LET g == lastCall.result.indicators.greeks
           tick_iv == NumOf(lastCall.tick["iv"])
       IN  /\ g.iv = tick_iv
           /\ g.score = GreeksOf(<<>>, <<>>, g.gamma, g.delta, 0).score
                         + (IF g.gamma_increasing /\ g.gamma > 5 THEN 2 ELSE 0)
                         + (IF g.delta_increasing THEN 2 ELSE 0)
                         + IvRule(tick_iv)

(* The titles among the alerts of the last analyze call *)
AlertTitles == {lastCall.alerts[i] : i \in 1..Len(lastCall.alerts)}

Analyzed == lastCall.op = "analyze" /\ ~lastCall.raised /\ lastCall.result # NoResult

(* C32: analyze emits the buy-pressure alert whenever tbq/tsq is above 3,  *)
(* a book with bids and no asks included, the sell-pressure alert whenever *)
(* it is below 0.33, a book with asks and no bids included, and never both *)
C32_PressureAlerts ==
    Analyzed
    => LET tbq == lastCall.locals.tbq.val
           tsq == lastCall.locals.tsq.val
       IN  /\ ((tsq > 0 /\ tbq > 3 * tsq) \/ (tsq = 0 /\ tbq > 0))
                 => "Buy Pressure" \in AlertTitles
           /\ ((tsq > 0 /\ 100 * tbq < 33 * tsq) \/ (tbq = 0 /\ tsq > 0))
                 => "Sell Pressure" \in AlertTitles
           /\ ~({"Buy Pressure", "Sell Pressure"} \subseteq AlertTitles)

(* C33: analyze works on the average the symbol had before the tick and    *)
(* leaves 0.9 * avg + 0.1 * volume; for a symbol without an average and a  *)
(* positive volume V it works on V / 10, so the ratio is 10, the volume    *)
(* factor is 35 and the Volume Spike alert is among the alerts.            *)
C33_RatioAgainstPriorAverage ==
    [][(lastCall'.op = "analyze" /\ nTicks' = nTicks + 1 /\ lastCall'.locals # <<>>)
       => LET symbol == lastCall'.symbol
              V == lastCall'.locals.volume.val
              avg == lastCall'.locals.avg_vol
              had == symbol \in DOMAIN detector.avg_volumes
              new == detector'.avg_volumes[symbol]
          IN  /\ had => avg = detector.avg_volumes[symbol]
              /\ new = Avg(9 * avg.num + V * avg.den, 10 * avg.den)
              /\ (~had /\ V > 0)
                    => /\ 10 * avg.num = V * avg.den
                       /\ lastCall'.parts[1] = 35
                       /\ \E i \in 1..Len(lastCall'.alerts) :
                              lastCall'.alerts[i] = "Volume Spike"]_vars

(* a symbol's first tick, of positive volume, with the spike alert, and    *)
(* the average it leaves at 0.19 of the volume                             *)
C33_Witness ==
    /\ Analyzed
    /\ nTicks = 1
    /\ lastCall.locals.volume.val > 0
    /\ "Volume Spike" \in AlertTitles
    /\ LET a == detector.avg_volumes[lastCall.symbol]
       IN  100 * a.num = 19 * lastCall.locals.volume.val * a.den

(* What the program holds for a symbol: its entry in each dictionary of    *)
(* the strict analyzer, its running average in the detector and its latest *)
(* stored results; <<>> where it has none                                  *)
SymbolState(s) ==
    [w \in DOMAIN FreshAnalyzer |-> IF s \in DOMAIN strong[w] THEN <<strong[w][s]>> ELSE <<>>]
    @@ [avg_volume |-> IF s \in DOMAIN detector.avg_volumes
                       THEN <<detector.avg_volumes[s]>> ELSE <<>>,
        analysis_result |-> IF s \in DOMAIN analysis_results
                            THEN <<heap[analysis_results[s]]>> ELSE <<>>,
        signal_result |-> IF s \in DOMAIN signal_results
                          THEN <<heap[signal_results[s]]>> ELSE <<>>]

(* the symbol whose tick the step analyses, "" when the step analyses none *)
SymbolInHand ==
    IF pubPc \in {"analyze", "analyze_signal"} /\ feedIdx <= Len(feed)
    THEN feed[feedIdx][1] ELSE ""

(* C34: a step changes the state of no symbol but the one whose tick it    *)
(* analyses, never removes a part of a symbol's state, and leaves the      *)
(* analysed symbol with an average (detector) or with every window (strict *)
(* analyzer) when the tick carries market data the engine analyses.        *)
C34_SymbolStateIsolated ==
    [][\A s \in FeedSymbols :
          /\ s # SymbolInHand => SymbolState(s)' = SymbolState(s)
          /\ \A part \in DOMAIN SymbolState(s) :
                 SymbolState(s)[part] # <<>> => SymbolState(s)'[part] # <<>>
          /\ (s = SymbolInHand /\ pubPc = "analyze" /\ <<pubPc, feedIdx>>' # <<pubPc, feedIdx>>
                /\ MffOf(feed[feedIdx][2]) # <<>>)
                => SymbolState(s)'["avg_volume"] # <<>>
          /\ (s = SymbolInHand /\ pubPc = "analyze_signal" /\ pubPc' = "analyze"
                /\ MffOf(feed[feedIdx][2]) # <<>>
                /\ ~AnalyzeTickRaises(MffOf(feed[feedIdx][2])))
                => \A w \in DOMAIN FreshAnalyzer : SymbolState(s)'[w] # <<>>]_vars

(* both symbols have their windows, an average and stored results *)
C34_Witness ==
    \A s \in FeedSymbols : \A part \in DOMAIN SymbolState(s) : SymbolState(s)[part] # <<>>

(* C35: on a stream of strictly increasing prices through analyze_tick,    *)
(* once the price window holds at least 5 entries and the last price is    *)
(* more than 0.3% above the window mean, the momentum condition (the third *)
(* of the seven) is satisfied and the momentum label is STRONG or          *)
(* VERY_STRONG.                                                            *)
C35_RisingPricesSatisfyMomentum ==
    (lastCall.op = "analyze_tick")
    => LET prices == strong.price_history[lastCall.symbol]
           n == Len(prices)
           total == SumSeq(prices)
       IN  (n >= MinPriceFill /\ 1000 * (prices[n] * n - total) > 3 * total)
           => /\ 3 \in lastCall.conds
              /\ lastCall.result.indicators.momentum.signal \in {"STRONG", "VERY_STRONG"}

(* C36: on a symbol's first and second tick the strict analyzer emits no   *)
(* STRONG_BUY: only the order-flow, greeks and ask-breakout conditions can *)
(* hold on the first tick (at most 3) and the open-interest condition      *)
(* besides them on the second (at most 4).                                 *)
C36_NoEmissionBeforeThirdTick ==
    (lastCall.op \in {"analyze_tick", "check_strong_buy_signal"} /\ nTicks <= 2)
    => /\ lastCall.buy = NoSignal
       /\ lastCall.conds \subseteq (IF nTicks = 1 THEN {1, 4, 6} ELSE {1, 4, 5, 6})

(* a second tick on which four conditions hold *)
C36_Witness ==
    /\ lastCall.op \in {"analyze_tick", "check_strong_buy_signal"}
    /\ nTicks = 2
    /\ lastCall.conds = {1, 4, 5, 6}

(* the least a satisfied condition adds to the score, in 1/10 point: 16    *)
(* for the order flow, 10.5 for the volume spike, 15 for the momentum, 10  *)
(* for each of the others                                                  *)
LeastPoints == <<160, 105, 150, 100, 100, 100, 100>>

(* C37: an emitted STRONG_BUY has at least 5 satisfied conditions, each    *)
(* satisfied condition has added at least its least points (and the        *)
(* others nothing) to the score, and the confidence is at least 0.5.       *)
C37_EmittedConfidenceAtLeastHalf ==
    (lastCall.op \in {"analyze_tick", "check_strong_buy_signal"}
        /\ lastCall.buy # NoSignal)
    => /\ Cardinality(lastCall.conds) >= 5
       /\ \A k \in 1..TotalConditions :
              IF k \in lastCall.conds THEN lastCall.points[k] >= LeastPoints[k]
              ELSE lastCall.points[k] = 0
       /\ lastCall.score = SumSeq(lastCall.points)
       /\ lastCall.score >= 500
       /\ lastCall.buy.confidence >= 50

(* a STRONG_BUY on exactly five conditions, below full confidence *)
C37_Witness ==
    /\ lastCall.op \in {"analyze_tick", "check_strong_buy_signal"}
    /\ lastCall.buy # NoSignal
    /\ lastCall.buy.action = "STRONG_BUY"
    /\ Cardinality(lastCall.conds) = 5
    /\ lastCall.buy.confidence < 100

(* C38: the result of the graded analyze_tick never carries both a BUY and *)
(* a SELL signal                                                           *)
C38_NeverBuyAndSell ==
    (lastCall.op = "graded_analyze_tick")
    => ~(lastCall.result.signals.buy # NoSignal /\ lastCall.result.signals.sell # NoSignal)

(* C39: in app.py the message counter is the number of messages broadcast  *)
(* so far and the k-th of them carries message_id k - 1, whatever          *)
(* reconnects and undecodable messages came in between.                    *)
C39_MessageIdsCountBroadcasts ==
    (svc = "app")
    => /\ message_count = Len(stamped)
       /\ \A k \in 1..Len(stamped) : stamped[k].message_id = k - 1

(* two messages broadcast, the second received on a later connection *)
C39_Witness ==
    /\ svc = "app"
    /\ Len(stamped) = 2
    /\ stamped[1].session < stamped[2].session

====
